---- MODULE Spec2Model ----
(***************************************************************************)
(* Walk-forward backtest of the rule-voting strategy:                      *)
(*   futu_autotrade/backtest_batch.py  backtest_symbol  (ATR-scaled cost)  *)
(*   backtest_voter.py                 backtest         (constant cost)    *)
(*                                                                         *)
(* Python floats are modelled as exact rationals <<num, den>> (den > 0,    *)
(* lowest terms), without the rounding of binary64 arithmetic, in Spec,    *)
(* SpecCost, SpecReport and SpecBatch.  SpecMean, SpecAgree and SpecStream *)
(* keep floats bit by bit, with round-to-nearest-even.                     *)
(* Row indices are Python's: df is a function on 0 .. n-1.                 *)
(***************************************************************************)
EXTENDS Integers, Sequences, FiniteSets, TLC

\* ------------------------------------------------------------------ bounds
\* Largest number of bars after the warmup rows in an input DataFrame.
MaxSim == 3

\* ------------------------------------------------------- program constants
\* range(60, len(df)): the first simulated row.
Warmup == 60
\* tr.rolling(14).mean()
AtrWindow == 14
\* bps / 1e4, cost_bps / 10000.0
BpsUnit == 10000

\* ------------------------------------------------------ float arithmetic
\* Each operator binds its operands once (x \in {a}) before it computes.
Abs(x) == IF x < 0 THEN -x ELSE x

RECURSIVE GCD(_, _)
GCD(a, b) == IF b = 0 THEN a ELSE GCD(b, a % b)

\* The rational n/d in lowest terms with a positive denominator.
RNorm(n, d) ==
    CHOOSE r \in {<<(s * x) \div g, (s * y) \div g>> :
                    x \in {n}, y \in {d},
                    g \in {GCD(Abs(n), Abs(d))},
                    s \in {IF d < 0 THEN -1 ELSE 1}} : TRUE

R(k) == <<k, 1>>

RNeg(a) == CHOOSE r \in {<<-x[1], x[2]>> : x \in {a}} : TRUE

RAdd(a, b) ==
    CHOOSE r \in {RNorm(x[1] * (y[2] \div GCD(x[2], y[2]))
                          + y[1] * (x[2] \div GCD(x[2], y[2])),
                        (x[2] \div GCD(x[2], y[2])) * y[2]) :
                    x \in {a}, y \in {b}} : TRUE

RSub(a, b) == RAdd(a, RNeg(b))

RMul(a, b) ==
    CHOOSE r \in {RNorm((x[1] \div GCD(Abs(x[1]), y[2]))
                          * (y[1] \div GCD(Abs(y[1]), x[2])),
                        (x[2] \div GCD(Abs(y[1]), x[2]))
                          * (y[2] \div GCD(Abs(x[1]), y[2]))) :
                    x \in {a}, y \in {b}} : TRUE

\* b # 0: every divisor of the program is a positive close or a constant.
RDiv(a, b) == RMul(a, CHOOSE r \in {RNorm(y[2], y[1]) : y \in {b}} : TRUE)

RPos(a) == a[1] > 0
RNegative(a) == a[1] < 0
RGe0(a) == a[1] >= 0
\* ------------------------------------------------------------------ inputs
\* Bar prices.  All prices are congruent modulo the ATR window, so that every
\* true range is 0 or 14 and the rolling mean is a whole number.
Prices == {1, 15}

\* high, low and close of one bar (low <= close <= high): a flat bar at 1
\* and a wide bar that closes at its high.
Bars == {[high |-> 1, low |-> 1, close |-> 1],
         [high |-> 15, low |-> 1, close |-> 15]}

\* The bar every warmup row carries.
HistBar == [high |-> 1, low |-> 1, close |-> 1]

\* Row j of a DataFrame: time_key strictly increasing with the row index.
Row(j, b) == [time_key |-> j, high |-> b.high, low |-> b.low, close |-> b.close]

\* The DataFrames of n rows: warmup rows, then up to MaxSim simulated rows.
Frames(n) ==
    IF n <= Warmup
    THEN {[j \in 0 .. n - 1 |-> Row(j, HistBar)]}
    ELSE {[j \in 0 .. n - 1 |->
              IF j < Warmup THEN Row(j, HistBar) ELSE Row(j, tail[j])] :
          tail \in [Warmup .. n - 1 -> Bars]}

\* len(df): no row, fewer rows than the ATR window or than the warmup,
\* exactly the warmup, and up to MaxSim rows more.
FrameLens == {0, 1, AtrWindow, Warmup - 1} \cup (Warmup .. Warmup + MaxSim)

\* Expression strings of the rules and the outcomes of safe_eval on a context.
Exprs == {"e1", "e2"}
Outcomes == {"truthy", "falsy", "raise"}

\* A local variable that has not been assigned yet, a key that is absent.
NoValue == <<0, 0>>

\* The 'rules' list of the YAML file: two rules of opposite weights, and two
\* entries that carry the same expression string.
RuleLists ==
    { <<[rule |-> "e1", weight |-> R(1)], [rule |-> "e2", weight |-> R(-1)]>>,
      <<[rule |-> "e1", weight |-> R(1)], [rule |-> "e1", weight |-> R(2)]>> }

\* float(r.get('weight', 1.0))
Weight(r) == IF r.weight = NoValue THEN R(1) ELSE r.weight

\* d[key] = w on a dict kept as its items in insertion order: an existing key
\* keeps its place and takes the new value, a new key goes to the end.
DictSet(items, key, w) ==
    IF \E n \in 1 .. Len(items) : items[n].rule = key
    THEN [n \in 1 .. Len(items) |->
             IF items[n].rule = key THEN [rule |-> key, weight |-> w]
             ELSE items[n]]
    ELSE Append(items, [rule |-> key, weight |-> w])

\* The dict comprehension of load_rules over entries k .. Len(rs).
RECURSIVE DictFrom(_, _, _)
DictFrom(rs, k, items) ==
    IF k > Len(rs) THEN items
    ELSE DictFrom(rs, k + 1, DictSet(items, rs[k].rule, Weight(rs[k])))

\* load_rules: {r['rule']: float(r.get('weight', 1.0)) for r in rules}
load_rules(rs) == DictFrom(rs, 1, <<>>)

\* rules.items(): the rule dict in insertion order, one entry per expression.
RuleSets == {load_rules(rs) : rs \in RuleLists}

\* The outcomes of safe_eval at one bar: one for each expression of the dict,
\* "none" for an expression that is no key of it and is never evaluated.
Evaluations(items) ==
    {ev \in [Exprs -> Outcomes \cup {"none"}] :
        \A e \in Exprs :
            ev[e] = "none" <=> ~(\E n \in 1 .. Len(items) : items[n].rule = e)}

\* (spread_bps, slip_bps, slip_atr_mult) of backtest_symbol.
CostParams ==
    { [spread_bps |-> R(0),     slip_bps |-> R(0),     slip_atr_mult |-> R(0)],
      [spread_bps |-> R(0),     slip_bps |-> R(0),     slip_atr_mult |-> R(1)],
      [spread_bps |-> R(5000),  slip_bps |-> R(2500),  slip_atr_mult |-> <<1, 2>>],
      [spread_bps |-> R(0),     slip_bps |-> R(-5000), slip_atr_mult |-> R(0)] }

\* cost_bps of backtest.
CostBps == {R(0), R(5000), R(-5000)}

\* ----------------------------------------------------------- cost model
\* The defaults of the keyword parameters of cost_per_notional_bps.
CostDefaults ==
    [spread_bps |-> R(0), slip_bps |-> R(0), slip_atr_mult |-> R(0)]

\* The value a keyword parameter is bound to in a call: the argument, or the
\* default when the argument is omitted.
Bound(arg, default) == IF arg = NoValue THEN default ELSE arg

\* Mutant of cost_per_notional_bps: the whole spread is charged.
CostFullSpread(a, spread, slip, mult) ==
    RAdd(RAdd(spread, slip), RMul(mult, RMul(a, R(BpsUnit))))

\* cost_per_notional_bps: half-spread + fixed slippage + ATR-scaled slippage.
cost_per_notional_bps(a, spread, slip, mult) ==
    RAdd(RAdd(RDiv(spread, R(2)), slip), RMul(mult, RMul(a, R(BpsUnit))))

\* Python's max(a, b) on two numbers: b if b > a else a.
Max(a, b) == IF b > a THEN b ELSE a

\* Mutant of TrueRange: the close of the next row stands for the previous
\* one (close.shift(-1)); on the last row it is NaN.
TrueRangeNextClose(frame, j) ==
    IF j = Cardinality(DOMAIN frame) - 1 THEN Abs(frame[j].high - frame[j].low)
    ELSE Max(Max(Abs(frame[j].high - frame[j].low),
                 Abs(frame[j].high - frame[j + 1].close)),
             Abs(frame[j].low - frame[j + 1].close))

\* tr of row j: max of |high-low|, |high-close.shift()|, |low-close.shift()|;
\* on row 0 the shifted close is NaN and max(x, NaN) is x.  Prices are whole
\* numbers, so tr is one too.
TrueRange(frame, j) ==
    IF j = 0 THEN Abs(frame[j].high - frame[j].low)
    ELSE Max(Max(Abs(frame[j].high - frame[j].low),
                 Abs(frame[j].high - frame[j - 1].close)),
             Abs(frame[j].low - frame[j - 1].close))

\* Sum of tr over rows lo .. hi (lo <= hi), halving the range.
RECURSIVE SumTrueRange(_, _, _)
SumTrueRange(frame, lo, hi) ==
    IF lo = hi THEN TrueRange(frame, lo)
    ELSE SumTrueRange(frame, lo, (lo + hi) \div 2)
         + SumTrueRange(frame, (lo + hi) \div 2 + 1, hi)

\* atr_pct.iloc[j]: rolling(14) mean of tr over close; NaN (fewer than 14
\* rows) is filled with 0.
AtrPct(frame, j) ==
    IF j < AtrWindow - 1 THEN R(0)
    ELSE RDiv(RDiv(R(SumTrueRange(frame, j - (AtrWindow - 1), j)), R(AtrWindow)),
              R(frame[j].close))

\* ---------------------------------------------------------- rule scorer
\* One pass of the try/except around safe_eval: a truthy result adds the
\* weight, a falsy result adds nothing, an exception is swallowed.
RuleContribution(outcome, w) ==
    IF outcome = "truthy" THEN w ELSE R(0)

\* Mutant of ScoreFrom: the try/except wraps the whole loop over the rules, so
\* the first exception ends the scoring of the bar.
RECURSIVE ScoreFromAbort(_, _, _, _)
ScoreFromAbort(items, ev, k, acc) ==
    IF k > Len(items) \/ ev[items[k].rule] = "raise" THEN acc
    ELSE ScoreFromAbort(items, ev, k + 1,
                        RAdd(acc, IF ev[items[k].rule] = "truthy"
                                  THEN items[k].weight ELSE R(0)))

RECURSIVE ScoreFrom(_, _, _, _)
ScoreFrom(items, ev, k, acc) ==
    IF k > Len(items) THEN acc
    ELSE ScoreFrom(items, ev, k + 1,
                   RAdd(acc, RuleContribution(ev[items[k].rule], items[k].weight)))

\* score = 0.0; for expr, w in rules.items(): ...
Score(items, ev) == ScoreFrom(items, ev, 1, R(0))

\* Mutant of Signal: a score of 0 counts as BUY (>= for >).
SignalZeroBuys(s) ==
    IF RGe0(s) THEN "BUY" ELSE IF RNegative(s) THEN "SELL" ELSE "HOLD"

\* sig = 'BUY' if score > 0 else ('SELL' if score < 0 else 'HOLD')
Signal(s) ==
    IF RPos(s) THEN "BUY" ELSE IF RNegative(s) THEN "SELL" ELSE "HOLD"

\* -------------------------------------------------------- position ledger
\* Mutant of BuyGuard: the position is not consulted.
BuyGuardAnyPos(s, p) == s = "BUY"

\* if sig == 'BUY' and pos == 0
BuyGuard(s, p) == s = "BUY" /\ p = 0
\* Mutant of SellGuard: the position is not consulted.
SellGuardAnyPos(s, p) == s = "SELL"

\* elif sig == 'SELL' and pos == 1
SellGuard(s, p) == s = "SELL" /\ p = 1

\* backtest_symbol: fee = cash * (bps/1e4)
BuyFee(c, b) == RMul(c, RDiv(b, R(BpsUnit)))
\* Mutant of BuyQty: the fee is not taken off the cash that buys.
BuyQtyGross(c, fee, price) == RDiv(c, price)

\* qty = (cash - fee) / px
BuyQty(c, fee, price) == RDiv(RSub(c, fee), price)
\* cash -= qty*px + fee
CashAfterBuy(c, qty, price, fee) == RSub(c, RAdd(RMul(qty, price), fee))
\* fee = shares * px * (bps/1e4)
SellFee(sh, price, b) == RMul(RMul(sh, price), RDiv(b, R(BpsUnit)))
\* Mutant of CashAfterSell: the proceeds are credited without the fee.
CashAfterSellNoFee(c, sh, price, fee) == RAdd(c, RMul(sh, price))

\* cash += shares*px - fee
CashAfterSell(c, sh, price, fee) == RAdd(c, RSub(RMul(sh, price), fee))

\* backtest: qty = cash / px; fee = qty * px * cost_bps / 10000.0
VoterBuyFee(c, price, cb) ==
    RDiv(RMul(RMul(RDiv(c, price), price), cb), R(BpsUnit))
\* backtest: fee = shares * px * cost_bps / 10000.0
VoterSellFee(sh, price, cb) == RDiv(RMul(RMul(sh, price), cb), R(BpsUnit))

\* Mutant of MarkToMarket: the open position is left out of the equity.
MarkToMarketCashOnly(c, sh, price) == c

\* equity.append(cash + shares*px)
MarkToMarket(c, sh, price) == RAdd(c, RMul(sh, price))

\* pd.Series(equity, index=pd.to_datetime(times))
Series(values, index) == [k \in 1 .. Len(values) |-> <<index[k], values[k]>>]

\* ------------------------------------------------- floats of the reports
\* A float of the metrics is a rational <<n, d>> (d > 0), an IEEE special
\* value (d = 0: 0/0, 1/0, -1/0), or a finite value other than 0 that the
\* model does not compute and knows by its sign only (d = -1: a square root,
\* a power, the constant 1e-12).
NaN == <<0, 0>>
PosInf == <<1, 0>>
NegInf == <<-1, 0>>
Fin(sgn) == <<sgn, -1>>

IsRat(x) == x[2] > 0
IsInf(x) == x[2] = 0 /\ x[1] # 0
IsFinite(x) == x[2] # 0
Sgn(x) == IF x[1] > 0 THEN 1 ELSE IF x[1] < 0 THEN -1 ELSE 0

\* -a
XNeg(a) == CHOOSE r \in {<<-x[1], x[2]>> : x \in {a}} : TRUE

\* x + y on values.  A sum of a computed and an uncomputed value of opposite
\* signs has no case: no expression of the program forms one.
XAddV(x, y) ==
    IF x = NaN \/ y = NaN THEN NaN
    ELSE IF IsInf(x) /\ IsInf(y) THEN (IF x = y THEN x ELSE NaN)
    ELSE IF IsInf(x) THEN x
    ELSE IF IsInf(y) THEN y
    ELSE IF IsRat(x) /\ IsRat(y) THEN RAdd(x, y)
    ELSE IF Sgn(x) = 0 THEN y
    ELSE IF Sgn(y) = 0 THEN x
    ELSE CASE Sgn(x) = Sgn(y) -> Fin(Sgn(x))

\* a + b
XAdd(a, b) == CHOOSE r \in {XAddV(x, y) : x \in {a}, y \in {b}} : TRUE

\* a - b
XSub(a, b) == XAdd(a, XNeg(b))

\* x * y on values.
XMulV(x, y) ==
    IF x = NaN \/ y = NaN THEN NaN
    ELSE IF IsInf(x) \/ IsInf(y)
         THEN (IF Sgn(x) * Sgn(y) = 0 THEN NaN ELSE <<Sgn(x) * Sgn(y), 0>>)
    ELSE IF IsRat(x) /\ IsRat(y) THEN RMul(x, y)
    ELSE IF Sgn(x) * Sgn(y) = 0 THEN R(0)
    ELSE Fin(Sgn(x) * Sgn(y))

\* a * b
XMul(a, b) == CHOOSE r \in {XMulV(x, y) : x \in {a}, y \in {b}} : TRUE

\* x / y on values, numpy's float64: a division by 0.0 gives an infinity or,
\* for 0/0, NaN, and raises nothing.
XDivV(x, y) ==
    IF x = NaN \/ y = NaN THEN NaN
    ELSE IF IsInf(x) /\ IsInf(y) THEN NaN
    ELSE IF IsInf(x) THEN <<Sgn(x) * (IF Sgn(y) < 0 THEN -1 ELSE 1), 0>>
    ELSE IF IsInf(y) THEN R(0)
    ELSE IF Sgn(y) = 0 THEN (IF Sgn(x) = 0 THEN NaN ELSE <<Sgn(x), 0>>)
    ELSE IF IsRat(x) /\ IsRat(y) THEN RDiv(x, y)
    ELSE IF Sgn(x) = 0 THEN R(0)
    ELSE Fin(Sgn(x) * Sgn(y))

\* a / b
XDiv(a, b) == CHOOSE r \in {XDivV(x, y) : x \in {a}, y \in {b}} : TRUE

\* a ** 0.5
Sqrt(a) ==
    CHOOSE r \in {IF x = NaN \/ Sgn(x) < 0 THEN NaN
                  ELSE IF Sgn(x) = 0 THEN R(0)
                  ELSE IF x = PosInf THEN PosInf
                  ELSE Fin(1) : x \in {a}} : TRUE

\* a < b on rationals.
RLt(a, b) == a[1] * b[2] < b[1] * a[2]

\* a < b on floats that are not NaN.
XLt(a, b) ==
    IF IsInf(a) \/ IsInf(b)
    THEN (a = NegInf /\ b # NegInf) \/ (b = PosInf /\ a # PosInf)
    ELSE RLt(a, b)

\* ------------------------------------------------------------- metrics
\* 252 trading sessions a year; (t1 - t0).days / 365.25; max(1e-9, .).
Sessions == 252
YearDays == <<1461, 4>>
Eps == <<1, 1000000000>>
\* 2.0 ** 1024 is the first float64 power of two that is inf, and
\* 2.0 ** -1075 the first that is 0.0.
MaxExp == 1024
MinExp == 1075

\* An index value is a time in ticks; TicksPerDay of them make a day.
TicksPerDay == 2

\* sum of the floats k .. Len(q)
RECURSIVE XSum(_, _)
XSum(q, k) == IF k > Len(q) THEN R(0) ELSE XAdd(q[k], XSum(q, k + 1))

\* q.mean()
Mean(q) == XDiv(XSum(q, 1), R(Len(q)))

\* q.std(): the sample standard deviation (ddof = 1).
Std(q) ==
    CHOOSE r \in {Sqrt(XDiv(XSum([k \in 1 .. Len(q) |->
                                     XMul(XSub(q[k], m), XSub(q[k], m))], 1),
                            R(Len(q) - 1))) : m \in {Mean(q)}} : TRUE

\* equity.pct_change().fillna(0.0): the first change and every 0/0 are NaN
\* and become 0; a change from 0 to another value stays infinite.
PctChange(s) ==
    [k \in 1 .. Len(s) |->
        IF k = 1 THEN R(0)
        ELSE CHOOSE r \in {IF c = NaN THEN R(0) ELSE c :
                           c \in {XSub(XDiv(s[k][2], s[k - 1][2]), R(1))}} : TRUE]

\* equity.cummax() at position k.
RECURSIVE CumMax(_, _)
CumMax(s, k) ==
    IF k = 1 THEN s[1][2]
    ELSE CHOOSE r \in {IF XLt(p, s[k][2]) THEN s[k][2] ELSE p :
                       p \in {CumMax(s, k - 1)}} : TRUE

\* equity/peak - 1.0
Drawdown(s) ==
    [k \in 1 .. Len(s) |-> XSub(XDiv(s[k][2], CumMax(s, k)), R(1))]

\* ts_drawdown: the drawdown as a Series on the index of equity.
ts_drawdown(s) ==
    [k \in 1 .. Len(s) |-> <<s[k][1], XSub(XDiv(s[k][2], CumMax(s, k)), R(1))>>]

\* q.min(): the least of the values that are not NaN, NaN if there is none.
RECURSIVE MinFrom(_, _)
MinFrom(q, k) ==
    IF k > Len(q) THEN NaN
    ELSE CHOOSE r \in {IF q[k] = NaN THEN rest
                       ELSE IF rest = NaN \/ XLt(q[k], rest) THEN q[k]
                       ELSE rest : rest \in {MinFrom(q, k + 1)}} : TRUE

\* (equity.index[-1] - equity.index[0]).days on a DatetimeIndex.
Days(s) == (s[Len(s)][1] - s[1][1]) \div TicksPerDay

\* Python's max(1e-9, x): x if x > 1e-9 else 1e-9.
MaxEps(x) ==
    IF IsRat(x) /\ x[1] > 0 /\ x[2] \div x[1] < Eps[2] THEN x ELSE Eps

\* The largest k with 2^k <= n/d, for n/d >= 1.
RECURSIVE FloorLog2(_, _)
FloorLog2(n, d) == IF n \div 2 < d THEN 0 ELSE 1 + FloorLog2(n, 2 * d)

\* The least c with n/d <= 2^c, for n/d >= 1.
RECURSIVE CeilLog2(_, _)
CeilLog2(n, d) == IF n <= d THEN 0 ELSE 1 + CeilLog2((n + 1) \div 2, d)

\* base ** e - 1 for an exponent e > 0 that is no whole number (every 1/years
\* is none).  The results float64 can give: NaN for a negative base, -1 or
\* inf when the power underflows or overflows, a finite value otherwise.
\* Where the bounds 2^k <= base <= 2^c do not decide the overflow, both
\* results are given.
PowMinusOne(base, e) ==
    IF base = NaN THEN {NaN}
    ELSE IF IsInf(base) THEN {PosInf}
    ELSE IF Sgn(base) < 0 THEN {NaN}
    ELSE IF Sgn(base) = 0 THEN {R(-1)}
    ELSE IF base = R(1) THEN {R(0)}
    ELSE IF base[1] > base[2]
    THEN LET k == FloorLog2(base[1], base[2])
             c == CeilLog2(base[1], base[2])
         IN  (IF c <= (MaxExp * e[2] - 1) \div e[1] THEN {} ELSE {PosInf})
             \cup (IF k >= (MaxExp * e[2] + e[1] - 1) \div e[1]
                   THEN {} ELSE {Fin(1)})
    ELSE LET k == FloorLog2(base[2], base[1])
             c == CeilLog2(base[2], base[1])
         IN  (IF c <= (MinExp * e[2] - 1) \div e[1] THEN {} ELSE {R(-1)})
             \cup (IF k >= (MinExp * e[2] + e[1] - 1) \div e[1]
                   THEN {} ELSE {Fin(-1)})

\* backtest_lib.equity_metrics (rf = 0.0): the records it can return.
equity_metrics(eqs) ==
    IF Len(eqs) < 2
    THEN {[CAGR |-> R(0), Sharpe |-> R(0), MDD |-> R(0), Vol |-> R(0)]}
    ELSE LET rets == PctChange(eqs)
             years == MaxEps(RDiv(R(Days(eqs)), YearDays))
             base == XDiv(eqs[Len(eqs)][2], MaxEps(eqs[1][2]))
             vol == XMul(Std(rets), Sqrt(R(Sessions)))
             sharpe == IF vol = R(0) THEN R(0)
                       ELSE XDiv(XSub(XMul(Mean(rets), R(Sessions)), R(0)), vol)
             mdd == MinFrom(Drawdown(eqs), 1)
         IN  {[CAGR |-> cagr, Sharpe |-> sharpe, MDD |-> mdd, Vol |-> vol] :
                cagr \in PowMinusOne(base, RDiv(R(1), years))}

\* backtest_voter.metrics (rf = 0.0): the records it can return.
metrics(eqs) ==
    IF Len(eqs) < 2
    THEN {[CAGR |-> R(0), Sharpe |-> R(0), MDD |-> R(0),
           WinRate |-> R(0), Trades |-> R(0)]}
    ELSE LET rets == PctChange(eqs)
             years == RDiv(R(Days(eqs)), YearDays)
             base == XDiv(eqs[Len(eqs)][2], eqs[1][2])
             sharpe == XMul(XDiv(XSub(Mean(rets), RDiv(R(0), R(Sessions))),
                                 XAdd(Std(rets), Fin(1))),
                            Sqrt(R(Sessions)))
             mdd == MinFrom(Drawdown(eqs), 1)
         IN  {[CAGR |-> cagr, Sharpe |-> sharpe, MDD |-> mdd] :
                cagr \in IF RPos(years) THEN PowMinusOne(base, RDiv(R(1), years))
                         ELSE {R(0)}}

\* -------------------------------------------------- portfolio aggregation
\* The equity series backtest_symbol can hand to main, on an index in ticks:
\* no point, one point, a constant curve, a rise within one day, a rise and
\* a fall, a curve that starts later, a curve that touches 0 and one that
\* ends below 0.
EquitySeriesSet ==
    { <<>>,
      << <<0, R(1)>> >>,
      << <<0, R(1)>>, <<2, R(1)>> >>,
      << <<0, R(1)>>, <<1, R(2)>> >>,
      << <<0, R(1)>>, <<2, R(2)>>, <<4, R(1)>> >>,
      << <<2, R(1)>>, <<4, R(3)>> >>,
      << <<0, R(1)>>, <<2, R(0)>>, <<4, R(1)>> >>,
      << <<0, R(1)>>, <<2, <<-1, 2>>>> >> }

\* Largest number of symbols of a batch run.
MaxSymbols == 2

\* portfolio = None, and a portfolio that is a Series.
NoSeries == [none |-> TRUE, points |-> <<>>]
Some(s) == [none |-> FALSE, points |-> s]

\* The index of a Series as a set, and the value at t (NaN where t is no
\* label of the index).
Index(s) == {s[k][1] : k \in 1 .. Len(s)}
At(s, t) ==
    IF t \in Index(s) THEN s[CHOOSE k \in 1 .. Len(s) : s[k][1] = t][2] ELSE NaN

\* The labels of T in increasing order.
RECURSIVE Sorted(_)
Sorted(T) ==
    IF T = {} THEN <<>>
    ELSE LET t == CHOOSE x \in T : \A y \in T : x <= y
         IN  <<t>> \o Sorted(T \ {t})

\* Mutant of FillValue: a missing value counts as 0.
FillValueZero == R(0)

\* fill_value=np.nan
FillValue == NaN

\* a.add(b, fill_value=fill): the union of the two indexes, in order; a value
\* missing on one side is replaced by fill before the sum, and the result is
\* NaN where it is missing on both.
SeriesAdd(a, b, fill) ==
    LET idx == Sorted(Index(a) \cup Index(b))
    IN  [k \in 1 .. Len(idx) |->
            CHOOSE p \in {<<idx[k],
                            IF x = NaN /\ y = NaN THEN NaN
                            ELSE XAdd(IF x = NaN THEN fill ELSE x,
                                      IF y = NaN THEN fill ELSE y)>> :
                          x \in {At(a, idx[k])}, y \in {At(b, idx[k])}} : TRUE]

\* portfolio / len(symbols)
SeriesDiv(s, n) == [k \in 1 .. Len(s) |-> <<s[k][1], XDiv(s[k][2], R(n))>>]

\* s.dropna()
IsValue(p) == p[2] # NaN
DropNa(s) == SelectSeq(s, IsValue)

\* -------------------------------------------------- binary floating point
\* Where the rounding of a float decides a claim, the float is kept bit by
\* bit: a finite non-zero float of precision p is [neg, m, e], m its p
\* significand bits (most significant first, m[1] = 1) and e the exponent of
\* the leading bit, so that its value is m * 2^(e - (p - 1)).  Subnormals are
\* not modelled.  A natural number is the sequence of its bits.
\* Bits of the significand of a float64 and of a float32, and the largest
\* exponent of a finite float32.
P64 == 53
P32 == 24
EMax32 == 127

BZero == [kind |-> "zero"]
BNaN == [kind |-> "nan"]
BInf(neg) == [kind |-> "inf", neg |-> neg]
BNum(neg, m, e) == [kind |-> "num", neg |-> neg, m |-> m, e |-> e]

ZeroBits(n) == [k \in 1 .. n |-> 0]

\* The bits of a natural number without leading zeros.
Strip(b) ==
    IF \A k \in 1 .. Len(b) : b[k] = 0 THEN <<>>
    ELSE SubSeq(b, CHOOSE k \in 1 .. Len(b) :
                       b[k] = 1 /\ \A j \in 1 .. k - 1 : b[j] = 0, Len(b))

\* The bits of the natural number n.
RECURSIVE NatBits(_)
NatBits(n) == IF n = 0 THEN <<>> ELSE Append(NatBits(n \div 2), n % 2)

\* The carry into bit k of a + b, two naturals of the same number of bits:
\* some lower bit generates a carry and every bit between passes it on.
Carry(a, b, k) ==
    IF \E j \in k + 1 .. Len(a) : /\ a[j] = 1 /\ b[j] = 1
                                  /\ \A n \in k + 1 .. j - 1 : a[n] + b[n] = 1
    THEN 1 ELSE 0

BitsAdd(a, b) ==
    LET n == IF Len(a) > Len(b) THEN Len(a) ELSE Len(b)
        x == ZeroBits(n - Len(a)) \o a
        y == ZeroBits(n - Len(b)) \o b
    IN  Strip(<<Carry(x, y, 0)>>)
            \o [k \in 1 .. n |-> (x[k] + y[k] + Carry(x, y, k)) % 2]

\* Whether a < b on two naturals.
BitsLess(a, b) ==
    LET x == Strip(a)
        y == Strip(b)
    IN  \/ Len(x) < Len(y)
        \/ /\ Len(x) = Len(y)
           /\ \E k \in 1 .. Len(x) :
                 /\ x[k] < y[k]
                 /\ \A j \in 1 .. k - 1 : x[j] = y[j]

\* a - b on two naturals, a >= b: a plus the complement of b plus one,
\* without the carry out of the top bit.
BitsSub(a, b) ==
    LET n == Len(a)
        c == [k \in 1 .. n |-> 1 - (ZeroBits(n - Len(b)) \o b)[k]]
        t == BitsAdd(BitsAdd(a, c), <<1>>)
    IN  Strip(SubSeq(t, Len(t) - n + 1, Len(t)))

\* a * b on two naturals: the sum of the copies of a shifted to the set bits
\* lo .. hi of b.
RECURSIVE MulRange(_, _, _, _)
MulRange(a, b, lo, hi) ==
    IF lo > hi THEN <<>>
    ELSE IF lo = hi
         THEN (IF b[lo] = 1 THEN a \o ZeroBits(Len(b) - lo) ELSE <<>>)
    ELSE BitsAdd(MulRange(a, b, lo, (lo + hi) \div 2),
                 MulRange(a, b, (lo + hi) \div 2 + 1, hi))

BitsMul(a, b) == MulRange(a, b, 1, Len(b))

\* 2^k modulo d, and the natural of the bits lo .. hi of b modulo d
\* (d below 2^15).
RECURSIVE Pow2Mod(_, _)
Pow2Mod(k, d) ==
    IF k = 0 THEN 1 % d
    ELSE (((Pow2Mod(k \div 2, d) * Pow2Mod(k \div 2, d)) % d)
             * (IF k % 2 = 1 THEN 2 ELSE 1)) % d

RECURSIVE Rem(_, _, _, _)
Rem(b, lo, hi, d) ==
    IF lo > hi THEN 0
    ELSE IF lo = hi THEN b[lo] % d
    ELSE (Rem(b, lo, (lo + hi) \div 2, d) * Pow2Mod(hi - (lo + hi) \div 2, d)
             + Rem(b, (lo + hi) \div 2 + 1, hi, d)) % d

\* Long division of the natural b by the small positive integer d: bit k of
\* the quotient is set when twice the remainder so far plus bit k of b
\* reaches d.
BitsDiv(b, d) ==
    [q |-> [k \in 1 .. Len(b) |->
               IF 2 * Rem(b, 1, k - 1, d) + b[k] >= d THEN 1 ELSE 0],
     r |-> Rem(b, 1, Len(b), d)]

\* Round to nearest, ties to even: the natural b (and something more below
\* its last bit when sticky) to p significant bits; e is the exponent of the
\* leading bit, counted from the last bit of b.
RoundBits(b, sticky, p) ==
    LET t == Strip(b)
        L == Len(t)
    IN  IF L <= p THEN [m |-> t \o ZeroBits(p - L), e |-> L - 1]
        ELSE LET keep == SubSeq(t, 1, p)
                 more == sticky \/ (\E k \in p + 2 .. L : t[k] = 1)
                 up   == t[p + 1] = 1 /\ (more \/ keep[p] = 1)
                 r    == IF up THEN BitsAdd(keep, <<1>>) ELSE keep
             IN  IF Len(r) > p THEN [m |-> SubSeq(r, 1, p), e |-> L]
                 ELSE [m |-> r, e |-> L - 1]

\* The float of precision p nearest to b * 2^s / d (b a natural, d a small
\* positive integer).
BinRound(neg, b, s, d, p) ==
    IF Strip(b) = <<>> THEN BZero
    ELSE LET n  == p + 1 + Len(NatBits(d)) - Len(Strip(b))
             z  == IF d = 1 \/ n < 0 THEN 0 ELSE n
             qr == BitsDiv(Strip(b) \o ZeroBits(z), d)
             r  == RoundBits(qr.q, qr.r # 0, p)
         IN  BNum(neg, r.m, r.e + s - z)

\* The float64 a decimal literal n/d of the source denotes.
Lit64(n, d) == BinRound(n < 0, NatBits(Abs(n)), 0, d, P64)

\* -a
BinNeg(a) ==
    IF a.kind \in {"num", "inf"} THEN [a EXCEPT !.neg = ~a.neg] ELSE a

\* a + b in precision p.  The operand of the smaller exponent is aligned to
\* the other one; beyond 2p + 2 bits of distance it only marks the sum as
\* inexact.
BinAdd(a, b, p) ==
    IF a.kind = "nan" \/ b.kind = "nan" THEN BNaN
    ELSE IF a.kind = "inf"
         THEN (IF b.kind = "inf" /\ b.neg # a.neg THEN BNaN ELSE a)
    ELSE IF b.kind = "inf" THEN b
    ELSE IF a.kind = "zero" THEN b
    ELSE IF b.kind = "zero" THEN a
    ELSE LET hi == IF a.e >= b.e THEN a ELSE b
             lo == IF a.e >= b.e THEN b ELSE a
             far == hi.e - lo.e > 2 * p + 2
             x  == hi.m \o ZeroBits(IF far THEN p + 2 ELSE hi.e - lo.e)
             y  == IF far THEN <<1>> ELSE lo.m
             s  == (IF far THEN hi.e - (p + 2) ELSE lo.e) - (p - 1)
         IN  IF a.neg = b.neg THEN BinRound(a.neg, BitsAdd(x, y), s, 1, p)
             ELSE IF BitsLess(x, y) THEN BinRound(lo.neg, BitsSub(y, x), s, 1, p)
             ELSE BinRound(hi.neg, BitsSub(x, y), s, 1, p)

\* a - b in precision p.
BinSub(a, b, p) == BinAdd(a, BinNeg(b), p)

\* a * b in precision p.
BinMul(a, b, p) ==
    IF a.kind = "nan" \/ b.kind = "nan" THEN BNaN
    ELSE IF a.kind = "inf" \/ b.kind = "inf"
         THEN (IF a.kind = "zero" \/ b.kind = "zero" THEN BNaN
               ELSE BInf(a.neg # b.neg))
    ELSE IF a.kind = "zero" \/ b.kind = "zero" THEN BZero
    ELSE BinRound(a.neg # b.neg, BitsMul(a.m, Strip(b.m)),
                  a.e + b.e - 2 * (p - 1), 1, p)

\* a / n in precision p, n a positive whole number.
BinDivInt(a, n, p) ==
    IF a.kind = "num" THEN BinRound(a.neg, a.m, a.e - (p - 1), n, p)
    ELSE a

\* astype(float32) of a float64: rounded to 24 bits, infinite when the
\* exponent is out of range.
ToFloat32(a) ==
    IF a.kind # "num" THEN a
    ELSE LET r == BinRound(a.neg, a.m, a.e - (P64 - 1), 1, P32)
         IN  IF r.e > EMax32 THEN BInf(a.neg) ELSE r

\* ------------------------------------------------------------------- state
VARIABLES
    fn,             \* the simulator that runs: "backtest_symbol" or "backtest"
    df,             \* the input DataFrame, rows 0 .. len(df)-1
    rule_list,      \* the 'rules' list that load_rules reads
    rules,          \* rules.items(): sequence of [rule, weight]
    spread_bps, slip_bps, slip_atr_mult,    \* arguments of backtest_symbol
    cost_bps,       \* argument of backtest
    cash, shares, pos,                      \* the ledger
    trades, equity, times,                  \* the accumulators
    i,              \* the loop index of the next bar
    evals,          \* outcome of safe_eval for each rule at the last bar
    score, sig, px, bps,                    \* locals of the loop body
    atr_pct,        \* float(atr_pct.iloc[i]), the argument of the cost model
    scores,         \* history: the score of every bar simulated so far
    pc,             \* "loop" while the for loop runs, "done" after return
    ret,            \* the returned (trades, equity series)
    prog,           \* the main() that reports: "backtest_batch", "backtest_voter"
    cfg_symbols,    \* cfg.get('symbols'): the symbols of the configuration
    symbols,        \* the symbols, each with the equity series of its backtest
    k_sym,          \* the position of main's loop in symbols
    m,              \* the metrics record of the last symbol
    sym_summaries,  \* the rows of the per-symbol table
    portfolio,      \* the portfolio: None or a Series
    mP,             \* the metrics record of the portfolio
    rpc,            \* "loop" while main's loop runs, "done" after line 133
    market,         \* the bars fetch_kline has returned for each symbol
    ctx_log,        \* the outcomes of safe_eval on each symbol's windows so far
    results,        \* (trades, equity) main has received from each call, in order
    raw_df,         \* stream_runner.run_once: the DataFrame the fetch returned
    feature_cols,   \* the argument feature_cols of run_once
    X,              \* the feature row the bridge returned
    features_nan_rate,  \* the value of the gauge
    steps,          \* the calls run_once has made, in order
    out,            \* how run_once ended: its return value or the error raised
    spc,            \* the position of run_once
    last_sent,      \* alerts._last_sent: the last-sent time of each key
    now,            \* time.time()
    deliveries,     \* the channels the last call of send_alert tried
    last_alert,     \* the last call of send_alert and what it did
    ledgers         \* history: (cash, shares, pos) after every bar of the run

vars == <<fn, df, rule_list, rules, spread_bps, slip_bps, slip_atr_mult, cost_bps,
          cash, shares, pos, trades, equity, times, i, evals,
          score, sig, px, bps, atr_pct, scores, pc, ret,
          prog, cfg_symbols, symbols, k_sym, m, sym_summaries, portfolio, mP,
          rpc, market, ctx_log, results,
          raw_df, feature_cols, X, features_nan_rate, steps, out, spc,
          last_sent, now, deliveries, last_alert, ledgers>>

\* The variables of main's report, and their values while a backtest runs.
report == <<prog, cfg_symbols, symbols, k_sym, m, sym_summaries, portfolio, mP,
            rpc>>

NoReport ==
    /\ prog = "none" /\ cfg_symbols = <<>> /\ symbols = <<>> /\ k_sym = 1
    /\ m = [key \in {} |-> NaN] /\ sym_summaries = <<>>
    /\ portfolio = NoSeries /\ mP = [key \in {} |-> NaN] /\ rpc = "none"

\* The variables of a run of main that calls backtest_symbol, and the
\* variables of the other components; their values outside such a run.
batch == <<market, ctx_log, results>>

stream == <<raw_df, feature_cols, X, features_nan_rate, steps, out, spc>>

alerting == <<last_sent, now, deliveries, last_alert>>

others == <<batch, stream, alerting, ledgers>>

SymbolNames == {"A", "B"}

NoMarket == [s \in SymbolNames |-> [fetched |-> FALSE, df |-> <<>>]]

NoBatch ==
    /\ market = NoMarket
    /\ ctx_log = [s \in SymbolNames |-> <<>>]
    /\ results = <<>>

\* Before run_once is called: the gauge of a new process is 0.
NoStream ==
    /\ raw_df = [columns |-> <<>>, rows |-> <<>>]
    /\ feature_cols = <<>>
    /\ X = [none |-> TRUE]
    /\ features_nan_rate = <<0, 1>>
    /\ steps = <<>>
    /\ out = [kind |-> "none"]
    /\ spc = "none"

AlertKeys == {"PnLDrop:A", "ScoreTooLow:A", "PnLDrop:*"}

\* _last_sent = {}: no key has a last-sent time.
NoAlerts ==
    /\ last_sent = [k \in AlertKeys |-> [sent |-> FALSE, at |-> 0]]
    /\ now = 0
    /\ deliveries = {}
    /\ last_alert = [kind |-> "none"]

NoOthers == NoBatch /\ NoStream /\ NoAlerts /\ ledgers = <<>>

inputs == <<fn, df, rule_list, rules, spread_bps, slip_bps, slip_atr_mult, cost_bps>>

\* len(df)
NRows == Cardinality(DOMAIN df)

\* Mutant of LoopStart: the loop starts one row early.
LoopStartEarly == Warmup - 1

\* for i in range(60, len(df)): the first index of the loop.
LoopStart == Warmup

\* cash = 1.0; shares = 0.0; pos = 0; trades = []; equity = []; times = []
Init ==
    /\ fn \in {"backtest_symbol", "backtest"}
    /\ \E len \in FrameLens : df \in Frames(len)
    /\ rule_list \in RuleLists
    /\ rules = load_rules(rule_list)
    /\ IF fn = "backtest_symbol"
       THEN /\ \E c \in CostParams :
                 /\ spread_bps = c.spread_bps
                 /\ slip_bps = c.slip_bps
                 /\ slip_atr_mult = c.slip_atr_mult
            /\ cost_bps = NoValue
       ELSE /\ spread_bps = NoValue /\ slip_bps = NoValue
            /\ slip_atr_mult = NoValue
            /\ cost_bps \in CostBps
    /\ cash = R(1) /\ shares = R(0) /\ pos = 0
    /\ trades = <<>> /\ equity = <<>> /\ times = <<>>
    /\ i = LoopStart
    /\ evals = [e \in Exprs |-> "none"]
    /\ score = NoValue /\ sig = "none" /\ px = NoValue /\ bps = NoValue
    /\ atr_pct = NoValue /\ scores = <<>>
    /\ pc = "loop"
    /\ ret = [trades |-> <<>>, eq |-> <<>>]
    /\ NoReport
    /\ NoOthers

\* The symbol argument of the running call of backtest_symbol.
CallSymbol == symbols[k_sym].symbol

\* build_context and safe_eval are functions of (window, funds, symbol): when
\* main calls backtest_symbol more than once, a window of a symbol that was
\* evaluated before gives the outcomes it gave then.
Evaluated ==
    prog = "backtest_batch" /\ Len(ctx_log[CallSymbol]) > i - Warmup

ContextOutcomes ==
    IF Evaluated THEN {ctx_log[CallSymbol][i - Warmup + 1]}
    ELSE Evaluations(rules)

\* One iteration of the loop of backtest_symbol on row i.  Each value the loop
\* body computes is bound once; the values of both branches are bound before
\* the outcomes of safe_eval are drawn, and only the branch taken is used.
BacktestSymbolBar ==
    /\ fn = "backtest_symbol" /\ pc = "loop" /\ i < NRows
    /\ \E price \in {R(df[i].close)} :
       \E t \in {df[i].time_key} :
       \E a \in {AtrPct(df, i)} :
       \E b \in {cost_per_notional_bps(a, spread_bps, slip_bps, slip_atr_mult)} :
       \E bfee \in {BuyFee(cash, b)} :
       \E qty \in {BuyQty(cash, bfee, price)} :
       \E sfee \in {SellFee(shares, price, b)} :
       \E ev \in ContextOutcomes :
       \E s \in {Score(rules, ev)} :
       \E g \in {Signal(s)} :
       \E buy \in {BuyGuard(g, pos)} :
       \E sell \in {(~BuyGuard(g, pos)) /\ SellGuard(g, pos)} :
       \E cashN \in {IF buy THEN CashAfterBuy(cash, qty, price, bfee)
                     ELSE IF sell THEN CashAfterSell(cash, shares, price, sfee)
                     ELSE cash} :
       \E sharesN \in {IF buy THEN RAdd(shares, qty)
                       ELSE IF sell THEN R(0) ELSE shares} :
         /\ evals' = ev /\ score' = s /\ sig' = g /\ px' = price /\ bps' = b
         /\ atr_pct' = a /\ scores' = Append(scores, s)
         /\ ctx_log' = IF prog = "backtest_batch" /\ ~Evaluated
                       THEN [ctx_log EXCEPT ![CallSymbol] = Append(@, ev)]
                       ELSE ctx_log
         /\ cash' = cashN /\ shares' = sharesN
         /\ pos' = IF buy THEN 1 ELSE IF sell THEN 0 ELSE pos
         /\ trades' =
              IF buy
              THEN Append(trades, [time |-> t, side |-> "BUY", price |-> price,
                                   qty |-> qty, bps |-> b, score |-> s])
              ELSE IF sell
              THEN Append(trades, [time |-> t, side |-> "SELL", price |-> price,
                                   qty |-> shares, bps |-> b, score |-> s])
              ELSE trades
         /\ equity' = Append(equity, MarkToMarket(cashN, sharesN, price))
         /\ times' = Append(times, t)
    /\ i' = i + 1
    /\ UNCHANGED <<inputs, pc, ret, report, market, results, stream, alerting,
                   ledgers>>

\* One iteration of the loop of backtest on row i.
BacktestBar ==
    /\ fn = "backtest" /\ pc = "loop" /\ i < NRows
    /\ \E price \in {R(df[i].close)} :
       \E t \in {df[i].time_key} :
       \E bfee \in {VoterBuyFee(cash, price, cost_bps)} :
       \E qty \in {BuyQty(cash, bfee, price)} :
       \E sfee \in {VoterSellFee(shares, price, cost_bps)} :
       \E ev \in Evaluations(rules) :
       \E s \in {Score(rules, ev)} :
       \E g \in {Signal(s)} :
       \E buy \in {BuyGuard(g, pos)} :
       \E sell \in {(~BuyGuard(g, pos)) /\ SellGuard(g, pos)} :
       \E cashN \in {IF buy THEN CashAfterBuy(cash, qty, price, bfee)
                     ELSE IF sell THEN CashAfterSell(cash, shares, price, sfee)
                     ELSE cash} :
       \E sharesN \in {IF buy THEN RAdd(shares, qty)
                       ELSE IF sell THEN R(0) ELSE shares} :
         /\ evals' = ev /\ score' = s /\ sig' = g /\ px' = price
         /\ scores' = Append(scores, s)
         /\ cash' = cashN /\ shares' = sharesN
         /\ pos' = IF buy THEN 1 ELSE IF sell THEN 0 ELSE pos
         /\ trades' =
              IF buy
              THEN Append(trades, [time |-> t, side |-> "BUY", price |-> price,
                                   qty |-> qty, score |-> s])
              ELSE IF sell
              THEN Append(trades, [time |-> t, side |-> "SELL", price |-> price,
                                   qty |-> shares, score |-> s])
              ELSE trades
         /\ equity' = Append(equity, MarkToMarket(cashN, sharesN, price))
         /\ times' = Append(times, t)
    /\ i' = i + 1
    /\ UNCHANGED <<inputs, bps, atr_pct, pc, ret, report, others>>

\* The loop of backtest_symbol is exhausted: build the Series and return.
BacktestSymbolReturn ==
    /\ fn = "backtest_symbol" /\ pc = "loop" /\ i >= NRows
    /\ ret' = [trades |-> trades, eq |-> Series(equity, times)]
    /\ pc' = "done"
    /\ UNCHANGED <<inputs, cash, shares, pos, trades, equity, times, i, evals,
                   score, sig, px, bps, atr_pct, scores, report, others>>

\* The loop of backtest is exhausted: build the Series and return.
BacktestReturn ==
    /\ fn = "backtest" /\ pc = "loop" /\ i >= NRows
    /\ ret' = [trades |-> trades, eq |-> Series(equity, times)]
    /\ pc' = "done"
    /\ UNCHANGED <<inputs, cash, shares, pos, trades, equity, times, i, evals,
                   score, sig, px, bps, atr_pct, scores, report, others>>

Next ==
    \/ BacktestSymbolBar
    \/ BacktestBar
    \/ BacktestSymbolReturn
    \/ BacktestReturn

Spec == Init /\ [][Next]_vars

\* ------------------------------------------------------- main's report
\* The variables of a backtest, and their values while main reports.
backtest == <<fn, df, rule_list, rules, spread_bps, slip_bps, slip_atr_mult,
              cost_bps, cash, shares, pos, trades, equity, times, i, evals,
              score, sig, px, bps, atr_pct, scores, pc, ret>>

NoBacktest ==
    /\ fn = "none" /\ df = <<>> /\ rule_list = <<>> /\ rules = <<>>
    /\ spread_bps = NoValue /\ slip_bps = NoValue /\ slip_atr_mult = NoValue
    /\ cost_bps = NoValue
    /\ cash = R(1) /\ shares = R(0) /\ pos = 0
    /\ trades = <<>> /\ equity = <<>> /\ times = <<>>
    /\ i = LoopStart
    /\ evals = [e \in Exprs |-> "none"]
    /\ score = NoValue /\ sig = "none" /\ px = NoValue /\ bps = NoValue
    /\ atr_pct = NoValue /\ scores = <<>>
    /\ pc = "none"
    /\ ret = [trades |-> <<>>, eq |-> <<>>]

\* The symbols of a run, each with the equity series its backtest returns:
\* backtest_batch loops over a list of symbols, backtest_voter takes one.
SymbolLists(lens) ==
    UNION {{[k \in 1 .. n |-> [symbol |-> k, equity |-> f[k]]] :
              f \in [1 .. n -> EquitySeriesSet]} : n \in lens}

\* symbols = cfg.get('symbols') or [futu['symbol']]; sym_summaries = [];
\* portfolio = None, before the loop over the symbols.  backtest_voter takes
\* its one symbol and reads no list.
InitReport ==
    /\ NoBacktest
    /\ NoOthers
    /\ prog \in {"backtest_batch", "backtest_voter"}
    /\ IF prog = "backtest_batch"
       THEN /\ cfg_symbols \in SymbolLists(0 .. MaxSymbols)
            /\ \E futu \in SymbolLists({1}) :
                  symbols = IF cfg_symbols = <<>> THEN futu ELSE cfg_symbols
       ELSE /\ cfg_symbols = <<>>
            /\ symbols \in SymbolLists({1})
    /\ k_sym = 1
    /\ m = [key \in {} |-> NaN] /\ sym_summaries = <<>>
    /\ portfolio = NoSeries /\ mP = [key \in {} |-> NaN]
    /\ rpc = "loop"

\* One iteration of the loop of backtest_batch.main over the symbols: the
\* metrics of the symbol's equity series, its row of the table, and the
\* series added to the portfolio.
MainSymbolBody(equity_series) ==
    /\ \E eqs \in {equity_series} :
       \E mm \in equity_metrics(eqs) :
         /\ m' = mm
         /\ sym_summaries' =
              Append(sym_summaries,
                     [symbol |-> symbols[k_sym].symbol, CAGR |-> mm.CAGR,
                      Sharpe |-> mm.Sharpe, MDD |-> mm.MDD])
         /\ portfolio' = IF portfolio.none THEN Some(eqs)
                         ELSE Some(SeriesAdd(portfolio.points, eqs, FillValue))
    /\ k_sym' = k_sym + 1
    /\ UNCHANGED <<prog, cfg_symbols, mP, rpc>>

\* The iteration on a symbol whose equity series is given.
MainSymbol ==
    /\ prog = "backtest_batch" /\ rpc = "loop" /\ k_sym <= Len(symbols)
    /\ pc = "none"
    /\ MainSymbolBody(symbols[k_sym].equity)
    /\ UNCHANGED <<backtest, others, symbols>>

\* After the loop: the equal-weight portfolio and its metrics, or the record
\* of the else branch.
MainPortfolio ==
    /\ prog = "backtest_batch" /\ rpc = "loop" /\ k_sym > Len(symbols)
    /\ IF ~portfolio.none /\ Len(symbols) > 0
       THEN \E p \in {DropNa(SeriesDiv(portfolio.points, Len(symbols)))} :
              /\ portfolio' = Some(p)
              /\ mP' \in equity_metrics(p)
       ELSE /\ mP' = [CAGR |-> R(0), Sharpe |-> R(0), MDD |-> R(0)]
            /\ portfolio' = portfolio
    /\ rpc' = "done"
    /\ UNCHANGED <<backtest, others, prog, cfg_symbols, symbols, k_sym, m,
                   sym_summaries>>

\* backtest_voter.main: m = metrics(equity).
VoterMainMetrics ==
    /\ prog = "backtest_voter" /\ rpc = "loop"
    /\ m' \in metrics(symbols[1].equity)
    /\ rpc' = "done"
    /\ UNCHANGED <<backtest, others, prog, cfg_symbols, symbols, k_sym,
                   sym_summaries, portfolio, mP>>

NextReport ==
    \/ MainSymbol
    \/ MainPortfolio
    \/ VoterMainMetrics

SpecReport == InitReport /\ [][NextReport]_vars

\* ------------------------------------ main calling backtest_symbol
\* Largest number of symbols in the list of such a run, and of bars after
\* the warmup rows in the bars of a symbol.
MaxBatch == 2
MaxBatchBars == 1

\* The DataFrames fetch_kline returns.
BatchFrames == UNION {Frames(n) : n \in Warmup .. Warmup + MaxBatchBars}

\* cfg.get('symbols'): a list of symbol names, a name may come twice.
NameLists ==
    UNION {{[k \in 1 .. n |-> [symbol |-> f[k], equity |-> <<>>]] :
              f \in [1 .. n -> SymbolNames]} : n \in 0 .. MaxBatch}

\* The rules and the cost arguments of such a run.
BatchRuleLists ==
    { <<[rule |-> "e1", weight |-> R(1)], [rule |-> "e1", weight |-> R(2)]>> }

BatchCostParams ==
    { [spread_bps |-> R(0), slip_bps |-> R(0), slip_atr_mult |-> R(0)],
      [spread_bps |-> R(5000), slip_bps |-> R(2500), slip_atr_mult |-> <<1, 2>>] }

\* futu['symbol']
FutuSymbol == <<[symbol |-> "A", equity |-> <<>>]>>

\* Mutant of EntryLedger: the call starts on the ledger the last call left.
EntryLedgerKept(prev) == prev

\* cash = 1.0; shares = 0.0; pos = 0 at the entry of backtest_symbol,
\* whatever ledger an earlier call ended with.
EntryLedger(prev) == [cash |-> R(1), shares |-> R(0), pos |-> 0]

\* Mutant of EntryLog: the lists of the last call are used again.
EntryLogKept(prev) == prev

\* trades = []; equity = []; times = [] at the entry of backtest_symbol.
EntryLog(prev) == [trades |-> <<>>, equity |-> <<>>, times |-> <<>>]

\* main of backtest_batch before its loop: the symbols, the rules of
\* load_rules and the cost arguments of the command line.
InitBatch ==
    /\ prog = "backtest_batch"
    /\ cfg_symbols \in NameLists
    /\ symbols = IF cfg_symbols = <<>> THEN FutuSymbol ELSE cfg_symbols
    /\ k_sym = 1
    /\ m = [key \in {} |-> NaN] /\ sym_summaries = <<>>
    /\ portfolio = NoSeries /\ mP = [key \in {} |-> NaN]
    /\ rpc = "loop"
    /\ NoOthers
    /\ fn = "none" /\ df = <<>>
    /\ rule_list \in BatchRuleLists
    /\ rules = load_rules(rule_list)
    /\ \E c \in BatchCostParams :
         /\ spread_bps = c.spread_bps
         /\ slip_bps = c.slip_bps
         /\ slip_atr_mult = c.slip_atr_mult
    /\ cost_bps = NoValue
    /\ cash = R(1) /\ shares = R(0) /\ pos = 0
    /\ trades = <<>> /\ equity = <<>> /\ times = <<>>
    /\ i = LoopStart
    /\ evals = [e \in Exprs |-> "none"]
    /\ score = NoValue /\ sig = "none" /\ px = NoValue /\ bps = NoValue
    /\ atr_pct = NoValue /\ scores = <<>>
    /\ pc = "none"
    /\ ret = [trades |-> <<>>, eq |-> <<>>]

\* Lines 113-115 and the entry of backtest_symbol: fetch the bars of the
\* symbol (the same bars whenever the symbol is fetched again) and start the
\* call on a fresh ledger and fresh lists.
BatchCall ==
    /\ prog = "backtest_batch" /\ rpc = "loop" /\ k_sym <= Len(symbols)
    /\ pc = "none"
    /\ \E d \in (IF market[CallSymbol].fetched THEN {market[CallSymbol].df}
                  ELSE BatchFrames) :
         /\ df' = d
         /\ market' = [market EXCEPT
                         ![CallSymbol] = [fetched |-> TRUE, df |-> d]]
    /\ fn' = "backtest_symbol"
    /\ \E ledger \in {EntryLedger([cash |-> cash, shares |-> shares,
                                     pos |-> pos])} :
         cash' = ledger.cash /\ shares' = ledger.shares /\ pos' = ledger.pos
    /\ \E log \in {EntryLog([trades |-> trades, equity |-> equity,
                              times |-> times])} :
         trades' = log.trades /\ equity' = log.equity /\ times' = log.times
    /\ i' = LoopStart
    /\ evals' = [e \in Exprs |-> "none"]
    /\ score' = NoValue /\ sig' = "none" /\ px' = NoValue /\ bps' = NoValue
    /\ atr_pct' = NoValue /\ scores' = <<>>
    /\ pc' = "loop"
    /\ ret' = [trades |-> <<>>, eq |-> <<>>]
    /\ UNCHANGED <<rule_list, rules, spread_bps, slip_bps, slip_atr_mult,
                   cost_bps, report, ctx_log, results, stream, alerting,
                   ledgers>>

\* Lines 115-127: main receives (trades, equity) from the call that has
\* returned and runs the rest of the loop body on them.
BatchSymbol ==
    /\ prog = "backtest_batch" /\ rpc = "loop" /\ k_sym <= Len(symbols)
    /\ pc = "done"
    /\ MainSymbolBody(ret.eq)
    /\ symbols' = [symbols EXCEPT ![k_sym].equity = ret.eq]
    /\ results' = Append(results, [symbol |-> CallSymbol,
                                   trades |-> ret.trades, eq |-> ret.eq])
    /\ pc' = "none"
    /\ UNCHANGED <<fn, df, rule_list, rules, spread_bps, slip_bps,
                   slip_atr_mult, cost_bps, cash, shares, pos, trades, equity,
                   times, i, evals, score, sig, px, bps, atr_pct, scores, ret,
                   market, ctx_log, stream, alerting, ledgers>>

NextBatch ==
    \/ BatchCall
    \/ BacktestSymbolBar
    \/ BacktestSymbolReturn
    \/ BatchSymbol
    \/ MainPortfolio

SpecBatch == InitBatch /\ [][NextBatch]_vars

\* ---------------------------------------- the cost model called directly
\* atr_pct of a direct call.
AtrPcts == {R(0), <<1, 100>>, R(1)}

\* A keyword argument of a direct call: omitted, or a non-negative number.
CostArgs == {NoValue, R(0), R(1), R(5000)}

\* A call cost_per_notional_bps(atr_pct, ...) with any of the keyword
\* arguments omitted.
InitCost ==
    /\ fn = "cost_per_notional_bps"
    /\ df = <<>> /\ rule_list = <<>> /\ rules = <<>>
    /\ atr_pct \in AtrPcts
    /\ spread_bps \in CostArgs /\ slip_bps \in CostArgs
    /\ slip_atr_mult \in CostArgs
    /\ cost_bps = NoValue
    /\ cash = R(1) /\ shares = R(0) /\ pos = 0
    /\ trades = <<>> /\ equity = <<>> /\ times = <<>>
    /\ i = LoopStart
    /\ evals = [e \in Exprs |-> "none"]
    /\ score = NoValue /\ sig = "none" /\ px = NoValue /\ bps = NoValue
    /\ scores = <<>>
    /\ pc = "call"
    /\ ret = [trades |-> <<>>, eq |-> <<>>]
    /\ NoReport
    /\ NoOthers

\* The body of cost_per_notional_bps on the bound parameters; bps holds the
\* returned value.
CostCall ==
    /\ fn = "cost_per_notional_bps" /\ pc = "call"
    /\ bps' = cost_per_notional_bps(
                 atr_pct,
                 Bound(spread_bps, CostDefaults.spread_bps),
                 Bound(slip_bps, CostDefaults.slip_bps),
                 Bound(slip_atr_mult, CostDefaults.slip_atr_mult))
    /\ pc' = "done"
    /\ UNCHANGED <<inputs, cash, shares, pos, trades, equity, times, i, evals,
                   score, sig, px, atr_pct, scores, ret, report, others>>

\* The cost model, called directly or from the loop of backtest_symbol.
NextCost ==
    \/ CostCall
    \/ Next

SpecCost == (Init \/ InitCost) /\ [][NextCost]_vars

\* ================================================================= claims
\* The last entry of a non-empty sequence.
Last(q) == q[Len(q)]

\* The step just taken ran one iteration of the loop.
BarStep == pc = "loop" /\ i' = i + 1

\* The step just taken executed a trade.
TradeStep == BarStep /\ Len(trades') = Len(trades) + 1

\* The cost in bps applied at the bar just simulated.
AppliedBps == IF fn = "backtest_symbol" THEN bps ELSE cost_bps

\* spread_bps, slip_bps and slip_atr_mult are all non-negative.
NonNegativeCost ==
    /\ fn = "backtest_symbol"
    /\ RGe0(spread_bps) /\ RGe0(slip_bps) /\ RGe0(slip_atr_mult)

\* One of spread_bps, slip_bps, slip_atr_mult is negative.
MalformedCost ==
    /\ fn = "backtest_symbol"
    /\ (RNegative(spread_bps) \/ RNegative(slip_bps) \/ RNegative(slip_atr_mult))

AlternatingLog ==
    /\ pos \in {0, 1}
    /\ pos = Len(trades) % 2
    /\ \A k \in 1 .. Len(trades) :
         trades[k].side = IF k % 2 = 1 THEN "BUY" ELSE "SELL"

\* C2: state-machine closure.  Starting FLAT, the position only moves
\* FLAT->LONG on a BUY trade and LONG->FLAT on a SELL trade, so the trade log
\* starts with a BUY and its sides strictly alternate.
C2_StateMachineClosure ==
    /\ Init => pos = 0
    /\ []AlternatingLog
    /\ [][/\ pos' # pos =>
               /\ TradeStep
               /\ \/ pos = 0 /\ pos' = 1 /\ Last(trades').side = "BUY"
                  \/ pos = 1 /\ pos' = 0 /\ Last(trades').side = "SELL"
          /\ TradeStep => pos' # pos]_vars

\* C2 witness: the log holds BUY, SELL, BUY.
C2_Witness == Len(trades) = 3 /\ trades[3].side = "BUY" /\ pos = 1

\* C3: ledger invariant, as claimed.  With non-negative cost parameters and
\* positive prices, cash >= 0 in every state and shares = 0 whenever FLAT.
C3_LedgerInvariant ==
    NonNegativeCost => (RGe0(cash) /\ (pos = 0 => shares = R(0)))

\* The (state, signal) pairs that are no transition of the ledger.
NoOpPair(p, g) ==
    \/ p = 0 /\ g \in {"SELL", "HOLD"}
    \/ p = 1 /\ g \in {"BUY", "HOLD"}

\* C4: no-op combinations.  At a bar with FLAT+SELL, FLAT+HOLD, LONG+BUY or
\* LONG+HOLD the step leaves cash, shares and position unchanged, appends no
\* trade and charges no fee; only the bar's equity point is appended.
C4_NoOpCombinations ==
    [][(BarStep /\ NoOpPair(pos, sig')) =>
         /\ cash' = cash /\ shares' = shares /\ pos' = pos
         /\ trades' = trades
         /\ equity' = Append(equity, RAdd(cash, RMul(shares, R(df[i].close))))
         /\ times' = Append(times, df[i].time_key)]_vars

\* C4 witness: a bar with LONG+BUY was simulated after the BUY trade.
C4_Witness ==
    /\ pos = 1 /\ sig = "BUY" /\ Len(trades) = 1
    /\ trades[1].time < Last(times)

\* No trade carries the timestamp of the bar just simulated.
NoTradeAtLastBar ==
    \A k \in 1 .. Len(trades) : trades[k].time # Last(times)

\* C5: the signal is a function of the score alone: BUY iff score > 0, SELL
\* iff score < 0, HOLD iff score = 0; at a score of exactly 0 the bar makes
\* no trade, whatever the ledger state.
C5_SignalOfScore ==
    sig # "none" =>
        /\ sig \in {"BUY", "SELL", "HOLD"}
        /\ sig = "BUY" <=> RPos(score)
        /\ sig = "SELL" <=> RNegative(score)
        /\ sig = "HOLD" <=> score = R(0)
        /\ score = R(0) => NoTradeAtLastBar

\* C5 witness: both rules passed and their weights cancelled to a score of 0
\* while LONG.
C5_Witness ==
    /\ \A e \in Exprs : evals[e] = "truthy"
    /\ score = R(0) /\ sig = "HOLD" /\ pos = 1

\* The weight of the rule with expression e.
WeightOf(e) ==
    IF \E k \in 1 .. Len(rules) : rules[k].rule = e
    THEN (CHOOSE r \in {rules[k] : k \in 1 .. Len(rules)} : r.rule = e).weight
    ELSE R(0)

\* The score the claims define: the weights of the rules that evaluated
\* truthy, a rule that raised counting as 0.
PassedWeight(ev) ==
    RAdd(IF ev["e1"] = "truthy" THEN WeightOf("e1") ELSE R(0),
         IF ev["e2"] = "truthy" THEN WeightOf("e2") ELSE R(0))

\* C6: fail-soft rule evaluation.  A rule whose evaluation raises contributes
\* 0, the other rules of the bar are still evaluated, and the loop goes on to
\* the next bar.  A bar at which every rule raises has score 0 and signal
\* HOLD and executes no trade, and while the trade log is empty the ledger
\* and every equity point stay at the initial cash 1.0.
C6_FailSoft ==
    /\ [](sig # "none" => score = PassedWeight(evals))
    /\ []((\A e \in Exprs : evals[e] = "raise") =>
             score = R(0) /\ sig = "HOLD" /\ NoTradeAtLastBar)
    /\ [](trades = <<>> =>
             /\ cash = R(1) /\ shares = R(0)
             /\ \A k \in 1 .. Len(equity) : equity[k] = R(1))
    /\ [][(pc = "loop" /\ i < NRows /\ (\E e \in Exprs : evals'[e] = "raise")) =>
             (pc' = "loop" /\ i' = i + 1 /\ Len(equity') = Len(equity) + 1)]_vars

\* C6 witness: the first rule raised, the second passed and decided the bar:
\* the position was sold.
C6_Witness ==
    /\ evals["e1"] = "raise" /\ evals["e2"] = "truthy"
    /\ sig = "SELL" /\ Len(trades) = 2 /\ trades[2].time = Last(times)

\* C7: warmup exclusion.  No trade and no equity point carries a timestamp
\* earlier than that of bars[warmup]; with no such bar there is none at all.
C7_WarmupExclusion ==
    IF NRows <= Warmup
    THEN trades = <<>> /\ times = <<>> /\ equity = <<>> /\ ret.eq = <<>>
    ELSE /\ \A k \in 1 .. Len(trades) : trades[k].time >= df[Warmup].time_key
         /\ \A k \in 1 .. Len(times) : times[k] >= df[Warmup].time_key
         /\ \A k \in 1 .. Len(ret.eq) : ret.eq[k][1] >= df[Warmup].time_key
         /\ \A k \in 1 .. Len(ret.trades) :
              ret.trades[k].time >= df[Warmup].time_key

\* C7 witness: a trade was executed at the first bar after the warmup.
C7_Witness ==
    /\ NRows > Warmup /\ Len(trades) >= 1
    /\ trades[1].time = df[Warmup].time_key /\ times[1] = df[Warmup].time_key

\* C8: insufficient data.  With len(bars) <= warmup (zero bars included) the
\* loop body never runs, the ledger is never mutated and the run returns an
\* empty trade log and an empty equity series.
C8_InsufficientData ==
    NRows <= Warmup =>
        /\ pc \in {"loop", "done"}
        /\ cash = R(1) /\ shares = R(0) /\ pos = 0
        /\ trades = <<>> /\ equity = <<>> /\ times = <<>>
        /\ ret.trades = <<>> /\ ret.eq = <<>>
        /\ pc = "loop" => i >= NRows

\* C8 witness: a run on exactly warmup bars has returned.
C8_Witness == pc = "done" /\ NRows = Warmup

\* C9: equity series shape.  After k bars the series has k points, point k
\* carries the timestamp of bars[warmup + k - 1], each point is cash +
\* shares * close taken after that bar's ledger transition, and the returned
\* series has n - warmup points for n > warmup.
C9_EquitySeriesShape ==
    /\ [](/\ Len(equity) = i - Warmup
          /\ Len(times) = Len(equity)
          /\ \A k \in 1 .. Len(times) : times[k] = df[Warmup + k - 1].time_key
          /\ pc = "done" =>
               /\ NRows > Warmup => Len(ret.eq) = NRows - Warmup
               /\ \A k \in 1 .. Len(ret.eq) :
                    ret.eq[k] = <<df[Warmup + k - 1].time_key, equity[k]>>)
    /\ [][BarStep =>
            equity' = Append(equity,
                             RAdd(cash', RMul(shares', R(df[i].close))))]_vars

\* C9 witness: a run over warmup + 3 bars has returned three points, the last
\* one taken while LONG.
C9_Witness ==
    /\ pc = "done" /\ NRows = Warmup + 3 /\ Len(ret.eq) = 3
    /\ pos = 1 /\ RPos(shares)

\* C10: malformed cost parameters fail fast, as claimed.  A run given a
\* negative spread_bps, slip_bps or slip_atr_mult executes no trade and
\* produces no equity point.
C10_FailFast ==
    MalformedCost => (trades = <<>> /\ equity = <<>>)

\* The cost parameters of the run are all non-negative, in either simulator.
NonNegativeParams ==
    IF fn = "backtest_symbol"
    THEN RGe0(spread_bps) /\ RGe0(slip_bps) /\ RGe0(slip_atr_mult)
    ELSE RGe0(cost_bps)

\* a <= b on floats.
RLe(a, b) == RGe0(RSub(b, a))

\* C11: long/flat only, one active leg, as claimed.  With non-negative cost
\* parameters shares >= 0 in every state, the ledger holds shares only while
\* LONG (cash = 0) and cash only while FLAT (shares = 0), and every executed
\* trade leaves the equity at the trade price no larger than it was.
C11_LongFlatOneLeg ==
    /\ [](NonNegativeParams =>
            /\ RGe0(shares)
            /\ pos = 1 => cash = R(0)
            /\ pos = 0 => shares = R(0))
    /\ [][(NonNegativeParams /\ TradeStep) =>
            RLe(RAdd(cash', RMul(shares', px')),
                RAdd(cash, RMul(shares, px')))]_vars

\* The weights of the entries k .. Len(rs) of a rule list whose expression
\* evaluated truthy, every entry counted once.
RECURSIVE PairSum(_, _, _)
PairSum(rs, ev, k) ==
    IF k > Len(rs) THEN R(0)
    ELSE RAdd(IF ev[rs[k].rule] = "truthy" THEN rs[k].weight ELSE R(0),
              PairSum(rs, ev, k + 1))

\* C12: the score is the weight-sum of the passing rules, as claimed.  At
\* every bar the score equals the sum of the weights of exactly those
\* (expression, weight) pairs of the rule list whose expression evaluated
\* truthy, each pair counted once, also when two pairs carry the same
\* expression string.
C12_ScoreIsPairSum ==
    sig # "none" => score = PairSum(rule_list, evals, 1)

\* The DataFrames of the length of frame that agree with it on rows 0 .. k.
Agreeing(frame, k) ==
    {[j \in DOMAIN frame |-> IF j <= k THEN frame[j] ELSE Row(j, tail[j])] :
        tail \in [k + 1 .. Cardinality(DOMAIN frame) - 1 -> Bars]}

\* C13: no look-ahead.  What the step at bar i produces is the same on every
\* bar sequence that agrees with the input on bars[0..i] (the rule outcomes
\* being those of the context of that window): the price, the timestamp and
\* the cost in bps are those of the other sequence too, the equity point and
\* the trade, if any, are taken at that price and time, and no earlier trade
\* or equity point is rewritten.
C13_NoLookAhead ==
    [][BarStep =>
         \A g \in Agreeing(df, i) :
            /\ px' = R(g[i].close)
            /\ fn = "backtest_symbol" =>
                 bps' = cost_per_notional_bps(AtrPct(g, i), spread_bps,
                                              slip_bps, slip_atr_mult)
            /\ times' = Append(times, g[i].time_key)
            /\ equity' = Append(equity,
                                MarkToMarket(cash', shares', R(g[i].close)))
            /\ \/ trades' = trades
               \/ /\ Len(trades') = Len(trades) + 1
                  /\ SubSeq(trades', 1, Len(trades)) = trades
                  /\ Last(trades').time = g[i].time_key
                  /\ Last(trades').price = R(g[i].close)
                  /\ fn = "backtest_symbol" =>
                       Last(trades').bps =
                         cost_per_notional_bps(AtrPct(g, i), spread_bps,
                                               slip_bps, slip_atr_mult)]_vars

\* C13 witness: backtest_symbol, with a cost that follows the ATR, traded at
\* the first of three simulated bars, and the bars after it are not flat.
C13_Witness ==
    /\ fn = "backtest_symbol" /\ RPos(slip_atr_mult)
    /\ NRows = Warmup + 3 /\ i = Warmup + 1 /\ Len(trades) = 1
    /\ df[Warmup + 1].close = 15 /\ df[Warmup + 2].close = 15

\* The timestamps present in the equity series of every symbol.
CommonIndex ==
    {t \in UNION {Index(symbols[k].equity) : k \in 1 .. Len(symbols)} :
        \A k \in 1 .. Len(symbols) : t \in Index(symbols[k].equity)}

\* The sum over the symbols k .. Len(symbols) of their equity at t.
RECURSIVE EquitySum(_, _)
EquitySum(t, k) ==
    IF k > Len(symbols) THEN R(0)
    ELSE RAdd(At(symbols[k].equity, t), EquitySum(t, k + 1))

\* C14: equal-weight portfolio aggregation.  For N >= 1 instruments the
\* portfolio series holds exactly the timestamps present in every one of the
\* N equity series, in order, and at each of them the sum of the N equities
\* divided by N.
C14_EqualWeightPortfolio ==
    (prog = "backtest_batch" /\ rpc = "done" /\ Len(symbols) >= 1) =>
        /\ ~portfolio.none
        /\ portfolio.points =
             [k \in 1 .. Cardinality(CommonIndex) |->
                <<Sorted(CommonIndex)[k],
                  RDiv(EquitySum(Sorted(CommonIndex)[k], 1), R(Len(symbols)))>>]

\* C14 witness: two instruments whose series share some timestamps and
\* differ on others were aggregated, and their equities differ at a shared one.
C14_Witness ==
    /\ prog = "backtest_batch" /\ rpc = "done" /\ Len(symbols) = 2
    /\ Len(portfolio.points) = 2
    /\ Index(symbols[1].equity) # Index(symbols[2].equity)
    /\ \E t \in CommonIndex : At(symbols[1].equity, t) # At(symbols[2].equity, t)

\* The record of four zero metrics.
ZeroMetrics == [CAGR |-> R(0), Sharpe |-> R(0), MDD |-> R(0), Vol |-> R(0)]

\* C15: zero instruments, as claimed.  A configuration that lists no
\* instrument is aggregated into an empty portfolio series and the metrics
\* record with CAGR, Sharpe, MDD and Vol all 0.
C15_ZeroInstruments ==
    (prog = "backtest_batch" /\ rpc = "done" /\ Len(cfg_symbols) = 0) =>
        /\ ~portfolio.none /\ portfolio.points = <<>>
        /\ mP = ZeroMetrics

\* A metrics function has been applied to the equity series of a symbol, and
\* the series it was applied to.
Measured ==
    \/ prog = "backtest_voter" /\ rpc = "done"
    \/ prog = "backtest_batch" /\ k_sym > 1
MeasuredSeries ==
    IF prog = "backtest_voter" THEN symbols[1].equity
    ELSE symbols[k_sym - 1].equity

\* The portfolio and its metrics have been computed.
Aggregated == prog = "backtest_batch" /\ rpc = "done" /\ ~portfolio.none

\* C16: metrics degeneracy, as claimed.  For an equity series of fewer than
\* two points each metrics function returns exactly the four keys CAGR,
\* Sharpe, MDD and Vol, all 0.
C16_MetricsDegeneracy ==
    /\ (Measured /\ Len(MeasuredSeries) < 2) => m = ZeroMetrics
    /\ (Aggregated /\ Len(portfolio.points) < 2) => mP = ZeroMetrics

\* Every value of a metrics record is a finite number.
AllFinite(rec) == \A key \in DOMAIN rec : IsFinite(rec[key])

\* Every point of the series has the same value.
Constant(s) == \A k \in 1 .. Len(s) : s[k][2] = s[1][2]

\* No point of the series is below 0.
NonNegative(s) == \A k \in 1 .. Len(s) : RGe0(s[k][2])

\* C18: metrics are always finite, as claimed.  Each of CAGR, Sharpe, MDD and
\* Vol of every equity series (here: of every series without a negative
\* value, a constant series, a series within one day and a series that
\* contains 0 among them) is a finite number, and the Sharpe of a series
\* without volatility is exactly 0.
C18_FiniteMetrics ==
    /\ (Measured /\ NonNegative(MeasuredSeries)) =>
         /\ AllFinite(m)
         /\ Constant(MeasuredSeries) => m.Sharpe = R(0)
    /\ (Aggregated /\ NonNegative(portfolio.points)) =>
         /\ AllFinite(mP)
         /\ Constant(portfolio.points) => mP.Sharpe = R(0)

\* -1 <= x <= 0 for a float that is a number.
InUnitDrawdown(x) == IsRat(x) /\ RLe(R(-1), x) /\ RLe(x, R(0))

\* C17: drawdown bound, as claimed.  Every value of the drawdown series of
\* an equity series the simulation returns, and so the MDD that is its
\* minimum, lies in [-1, 0].
C17_DrawdownBound ==
    (pc = "done" /\ NonNegativeParams) =>
        /\ \A k \in 1 .. Len(ret.eq) : InUnitDrawdown(ts_drawdown(ret.eq)[k][2])
        /\ ret.eq # <<>> => InUnitDrawdown(MinFrom(Drawdown(ret.eq), 1))

\* spread_bps/2 + slip_bps + slip_atr_mult * atr_pct * 10000, over one
\* denominator: (spread_bps + 2*slip_bps + 20000*slip_atr_mult*atr_pct) / 2.
ClaimedCost(a, sp, sl, mu) ==
    RDiv(RAdd(RAdd(sp, RMul(R(2), sl)), RMul(RMul(R(2 * BpsUnit), mu), a)),
         R(2))

\* An omitted argument counts as 0.
OrZero(arg) == IF arg = NoValue THEN R(0) ELSE arg

\* A run of backtest_symbol with spread_bps = slip_bps = slip_atr_mult = 0.
ZeroCostRun ==
    /\ fn = "backtest_symbol"
    /\ spread_bps = R(0) /\ slip_bps = R(0) /\ slip_atr_mult = R(0)

AlwaysPositive ==
    /\ fn \in {"backtest_symbol", "backtest"}
    /\ scores # <<>>
    /\ \A k \in 1 .. Len(scores) : RPos(scores[k])

\* The cost in bps that applies at the bar bars[warmup].
WarmupBps ==
    IF fn = "backtest_symbol"
    THEN cost_per_notional_bps(AtrPct(df, Warmup), spread_bps, slip_bps,
                               slip_atr_mult)
    ELSE cost_bps

\* (1 - fee_fraction) * (close / buy_close), the BUY made at bars[warmup].
HeldEquity(close) ==
    RMul(RSub(R(1), RDiv(WarmupBps, R(BpsUnit))),
         RDiv(R(close), R(df[Warmup].close)))

C21_Determinism ==
    \A j, k \in 1 .. Len(results) :
        results[j].symbol = results[k].symbol => results[j] = results[k]

\* C21 witness: the same symbol was simulated twice, and the first call
\* bought at a cost.
C21_Witness ==
    /\ Len(results) = 2
    /\ results[1].symbol = results[2].symbol
    /\ Len(results[1].trades) = 1
    /\ RPos(results[1].trades[1].bps)
    /\ results[2].eq # <<>>

\* One bar of a simulation that is all by itself: the ledger and the trade
\* log after row j of frame, from the ledger and log st, ev being the
\* outcomes of safe_eval on that row.
AloneBar(frame, j, ev, st) ==
    LET price == R(frame[j].close)
        b     == cost_per_notional_bps(AtrPct(frame, j), spread_bps, slip_bps,
                                       slip_atr_mult)
        sc    == Score(rules, ev)
        buy   == BuyGuard(Signal(sc), st.pos)
        sell  == (~buy) /\ SellGuard(Signal(sc), st.pos)
        bfee  == BuyFee(st.cash, b)
        qty   == BuyQty(st.cash, bfee, price)
        sfee  == SellFee(st.shares, price, b)
    IN  [cash   |-> IF buy THEN CashAfterBuy(st.cash, qty, price, bfee)
                    ELSE IF sell
                         THEN CashAfterSell(st.cash, st.shares, price, sfee)
                         ELSE st.cash,
         shares |-> IF buy THEN RAdd(st.shares, qty)
                    ELSE IF sell THEN R(0) ELSE st.shares,
         pos    |-> IF buy THEN 1 ELSE IF sell THEN 0 ELSE st.pos,
         trades |-> IF buy
                    THEN Append(st.trades,
                                [time |-> frame[j].time_key, side |-> "BUY",
                                 price |-> price, qty |-> qty, bps |-> b,
                                 score |-> sc])
                    ELSE IF sell
                         THEN Append(st.trades,
                                     [time |-> frame[j].time_key,
                                      side |-> "SELL", price |-> price,
                                      qty |-> st.shares, bps |-> b,
                                      score |-> sc])
                         ELSE st.trades,
         bar    |-> <<frame[j].time_key, price>>]

\* The simulation of rows j .. len(frame)-1 all by itself, from ledger and
\* trade log st; eq collects the equity points.
RECURSIVE AloneFrom(_, _, _, _, _)
AloneFrom(frame, outcomes, j, st, eq) ==
    IF j >= Cardinality(DOMAIN frame)
    THEN [trades |-> st.trades, eq |-> eq]
    ELSE CHOOSE r \in
           {AloneFrom(frame, outcomes, j + 1, next,
                      Append(eq, <<next.bar[1],
                                   MarkToMarket(next.cash, next.shares,
                                                next.bar[2])>>)) :
              next \in {AloneBar(frame, j, outcomes[j - Warmup + 1], st)}} :
           TRUE

\* What backtest_symbol returns for a symbol simulated alone: on its bars,
\* with its outcomes of safe_eval, from cash 1 and empty lists.
Alone(sym) ==
    LET r == AloneFrom(market[sym].df, ctx_log[sym], Warmup,
                       [cash |-> R(1), shares |-> R(0), pos |-> 0,
                        trades |-> <<>>],
                       <<>>)
    IN  [symbol |-> sym, trades |-> r.trades, eq |-> r.eq]

MaxMean == 3

\* The equity values 0.1 and 1.1, and the equity series made of them: one
\* point, a constant curve and a rising curve.
MeanValues == {Lit64(1, 10), Lit64(11, 10)}
MeanSeriesSet ==
    {<< <<1, v>> >> : v \in MeanValues}
        \cup {<< <<1, Lit64(1, 10)>>, <<2, v>> >> : v \in MeanValues}
MeanLists ==
    UNION {{[k \in 1 .. n |-> [symbol |-> k, equity |-> f[k]]] :
              f \in [1 .. n -> MeanSeriesSet]} : n \in 1 .. MaxMean}

\* equity_metrics(eq) is a function of the series alone; pow and sqrt are not
\* computed bit by bit, the record is kept as the series it is computed from.
Metrics64(eqs) == [of |-> eqs]

At64(s, t) ==
    IF t \in Index(s) THEN s[CHOOSE k \in 1 .. Len(s) : s[k][1] = t][2] ELSE BNaN

\* a.add(b, fill_value=fill) on float64 values.
SeriesAdd64(a, b, fill) ==
    LET idx == Sorted(Index(a) \cup Index(b))
    IN  [k \in 1 .. Len(idx) |->
            CHOOSE p \in {<<idx[k],
                            IF x.kind = "nan" /\ y.kind = "nan" THEN BNaN
                            ELSE BinAdd(IF x.kind = "nan" THEN fill ELSE x,
                                        IF y.kind = "nan" THEN fill ELSE y,
                                        P64)>> :
                          x \in {At64(a, idx[k])}, y \in {At64(b, idx[k])}} : TRUE]

\* Mutant of SeriesDiv64: the sum is not divided.
SeriesSum64(s, n) == s

\* portfolio / len(symbols) on float64 values.
SeriesDiv64(s, n) == [k \in 1 .. Len(s) |-> <<s[k][1], BinDivInt(s[k][2], n, P64)>>]

\* s.dropna()
IsValue64(p) == p[2].kind # "nan"
DropNa64(s) == SelectSeq(s, IsValue64)

InitMean ==
    /\ NoBacktest
    /\ NoOthers
    /\ prog = "backtest_batch"
    /\ cfg_symbols \in MeanLists
    /\ symbols = cfg_symbols
    /\ k_sym = 1
    /\ m = [key \in {} |-> NaN] /\ sym_summaries = <<>>
    /\ portfolio = NoSeries /\ mP = [key \in {} |-> NaN]
    /\ rpc = "loop"

\* One iteration of the loop over the symbols, on float64 values.
MeanSymbol ==
    /\ prog = "backtest_batch" /\ rpc = "loop" /\ k_sym <= Len(symbols)
    /\ pc = "none"
    /\ \E eqs \in {symbols[k_sym].equity} :
         /\ m' = Metrics64(eqs)
         /\ sym_summaries' =
              Append(sym_summaries,
                     [symbol |-> symbols[k_sym].symbol, metrics |-> Metrics64(eqs)])
         /\ portfolio' = IF portfolio.none THEN Some(eqs)
                         ELSE Some(SeriesAdd64(portfolio.points, eqs, BNaN))
    /\ k_sym' = k_sym + 1
    /\ UNCHANGED <<backtest, others, prog, cfg_symbols, symbols, mP, rpc>>

\* After the loop: the equal-weight portfolio and its metrics.
MeanPortfolio ==
    /\ prog = "backtest_batch" /\ rpc = "loop" /\ k_sym > Len(symbols)
    /\ IF ~portfolio.none /\ Len(symbols) > 0
       THEN \E p \in {DropNa64(SeriesDiv64(portfolio.points, Len(symbols)))} :
              /\ portfolio' = Some(p)
              /\ mP' = Metrics64(p)
       ELSE /\ mP' = [CAGR |-> R(0), Sharpe |-> R(0), MDD |-> R(0)]
            /\ portfolio' = portfolio
    /\ rpc' = "done"
    /\ UNCHANGED <<backtest, others, prog, cfg_symbols, symbols, k_sym, m,
                   sym_summaries>>

NextMean ==
    \/ MeanSymbol
    \/ MeanPortfolio

SpecMean == InitMean /\ [][NextMean]_vars

\* The instruments of the run have one and the same equity series.
Identical ==
    \A k \in 1 .. Len(symbols) : symbols[k].equity = symbols[1].equity

\* The portfolio is that common series, with its metrics record.
IsCommonSeries ==
    /\ portfolio = Some(symbols[1].equity)
    /\ mP = m

\* C23 as stated: whenever N >= 2 instruments have identical equity series,
\* the portfolio series equals the common series timestamp by timestamp and
\* value by value, and has the same metrics record.
C23_IdentityAnyN ==
    (rpc = "done" /\ Len(symbols) >= 2 /\ Identical) => IsCommonSeries

\* C23 amended: when exactly two instruments have identical equity series of
\* finite values, the portfolio series equals the common series timestamp by
\* timestamp and value by value, and has the same metrics record.
C23_IdentityOfTwo ==
    (rpc = "done" /\ Len(symbols) = 2 /\ Identical) => IsCommonSeries

C23_Witness ==
    /\ rpc = "done" /\ Len(symbols) = 2 /\ Identical
    /\ Len(portfolio.points) = 2
    /\ portfolio.points[1][2] = Lit64(1, 10)
    /\ portfolio.points[2][2] = Lit64(11, 10)

\* --------------------------------------- feature bridge, stream runner
\* A raw DataFrame is [columns, rows]: the column labels in order and the
\* rows, each a function from the labels to cells.  A cell is a float64 or a
\* string (a sequence of characters).
\* Largest number of rows of a fetched DataFrame and of feature columns.
MaxRows == 1
MaxCols == 2

FloatCell(v) == [t |-> "float", v |-> v]
StrCell(chars) == [t |-> "str", s |-> chars]

\* 2^130, a finite float64 beyond the float32 range.
Huge64 == BinRound(FALSE, <<1>>, 130, 1, P64)

\* The cells of the inputs: 0.1, 2^130, NaN, -inf, "3" and "abc".
Cells ==
    {FloatCell(Lit64(1, 10)), FloatCell(Huge64), FloatCell(BNaN),
     FloatCell(BInf(TRUE)), StrCell(<<"3">>), StrCell(<<"a", "b", "c">>)}

ColumnNames == {"price", "volume"}
ColumnLists == {<<>>, <<"price">>, <<"volume">>, <<"price", "volume">>}
Range(q) == {q[k] : k \in 1 .. Len(q)}

\* The DataFrames a fetch can return: any cells in the last row, 0.1 in the
\* rows before it.
RawFrames ==
    UNION {{[columns |-> cols, rows |-> <<>>]}
             \cup {[columns |-> cols,
                    rows |-> [k \in 1 .. n |->
                                 IF k = n THEN last
                                 ELSE [c \in Range(cols) |-> FloatCell(Lit64(1, 10))]]] :
                     n \in 1 .. MaxRows, last \in [Range(cols) -> Cells]} :
             cols \in ColumnLists}

\* The lists feature_cols.
FeatureLists == UNION {[1 .. n -> ColumnNames] : n \in 0 .. MaxCols}

\* pd.to_numeric(..., errors="coerce") on one cell: a float is kept, a string
\* of decimal digits is the number it spells, any other string is NaN.
Digit == [c \in {"0", "1", "2", "3", "4", "5", "6", "7", "8", "9"} |->
             CASE c = "0" -> 0 [] c = "1" -> 1 [] c = "2" -> 2 [] c = "3" -> 3
               [] c = "4" -> 4 [] c = "5" -> 5 [] c = "6" -> 6 [] c = "7" -> 7
               [] c = "8" -> 8 [] c = "9" -> 9]

RECURSIVE DigitsValue(_)
DigitsValue(chars) ==
    IF chars = <<>> THEN 0
    ELSE 10 * DigitsValue(SubSeq(chars, 1, Len(chars) - 1))
             + Digit[chars[Len(chars)]]

ToNumeric(cell) ==
    IF cell.t = "float" THEN cell.v
    ELSE IF cell.s # <<>> /\ \A k \in 1 .. Len(cell.s) : cell.s[k] \in DOMAIN Digit
         THEN Lit64(DigitsValue(cell.s), 1)
         ELSE BNaN

\* .fillna(0.0) and .replace([np.inf, -np.inf], 0.0) on one value.
FillNa(v) == IF v.kind = "nan" THEN BZero ELSE v
ReplaceInf(v) == IF v.kind = "inf" THEN BZero ELSE v

\* The labels of feature_cols that df lacks, in order, each once.
MissingCols(frame, cols) ==
    SelectSeq([k \in 1 .. Len(cols) |->
                  IF cols[k] \in Range(frame.columns)
                       \/ \E j \in 1 .. k - 1 : cols[j] = cols[k]
                  THEN "" ELSE cols[k]],
              LAMBDA c : c # "")

\* df[col] = 0.0 for every missing col.
WithMissing(frame, cols) ==
    [columns |-> frame.columns \o MissingCols(frame, cols),
     rows |-> [r \in 1 .. Len(frame.rows) |->
                  [c \in Range(frame.columns) \cup Range(cols) |->
                      IF c \in Range(frame.columns) THEN frame.rows[r][c]
                      ELSE FloatCell(BZero)]]]

\* The caller's DataFrame after _clean_dataframe: the function works on
\* df.copy().
CleanedInput(frame, cols) == frame

\* _clean_dataframe: the rows of the cleaned DataFrame, each the float64
\* values of feature_cols in order.
CleanDataframe(frame, cols) ==
    LET full == WithMissing(frame, cols)
    IN  [r \in 1 .. Len(full.rows) |->
            [k \in 1 .. Len(cols) |->
                ReplaceInf(FillNa(ToNumeric(full.rows[r][cols[k]])))]]

\* The largest finite float32.
MaxFloat32(neg) == BNum(neg, [k \in 1 .. P32 |-> 1], EMax32)

\* np.nan_to_num on one float32: NaN becomes 0, an infinity the largest
\* finite float32 of its sign.
NanToNum(v) ==
    IF v.kind = "nan" THEN BZero
    ELSE IF v.kind = "inf" THEN MaxFloat32(v.neg)
    ELSE v

\* np.isnan(arr).sum() + np.isinf(arr).sum() on one row.
RECURSIVE CountBad(_)
CountBad(row) ==
    IF row = <<>> THEN 0
    ELSE (IF row[1].kind \in {"nan", "inf"} THEN 1 ELSE 0) + CountBad(Tail(row))

\* cleaned.tail(1): the last row, or no row.
Tail1(rows) == IF rows = <<>> THEN <<>> ELSE <<rows[Len(rows)]>>

\* nan_count / arr.size; 0 / 0 is NaN.
Rate(count, size) == IF size = 0 THEN NaN ELSE RDiv(R(count), R(size))

\* Mutant of build_latest_feature_row: the shape of the array is not checked.
build_unchecked(frame, cols) ==
    LET latest == Tail1(CleanDataframe(frame, cols))
    IN  [raised |-> FALSE,
         arr    |-> [r \in 1 .. Len(latest) |->
                        [k \in 1 .. Len(cols) |-> NanToNum(ToFloat32(latest[r][k]))]],
         rate   |-> Rate(0, Len(latest) * Len(cols)),
         input  |-> CleanedInput(frame, cols)]

\* build_latest_feature_row(df, feature_cols): whether it returns or raises
\* FeatureBridgeError, the array, the value set on the gauge, and the
\* caller's DataFrame after the call.
build_latest_feature_row(frame, cols) ==
    LET latest == Tail1(CleanDataframe(frame, cols))
        arr32  == [r \in 1 .. Len(latest) |->
                      [k \in 1 .. Len(cols) |-> ToFloat32(latest[r][k])]]
        count  == IF arr32 = <<>> THEN 0 ELSE CountBad(arr32[1])
        arr    == [r \in 1 .. Len(arr32) |->
                      [k \in 1 .. Len(cols) |-> NanToNum(arr32[r][k])]]
    IN  [raised |-> Len(arr) # 1,
         arr    |-> arr,
         rate   |-> Rate(count, Len(arr) * Len(cols)),
         input  |-> CleanedInput(frame, cols)]

\* model_service.predict_proba_one(x): a function of the row; exp is not
\* computed, the value is kept as the row it is computed from.
predict_proba_one(x) == [sigmoid_of_sum |-> x]

\* run_once is called with feature_cols.
InitStream ==
    /\ NoBacktest
    /\ NoReport
    /\ NoBatch
    /\ NoAlerts
    /\ ledgers = <<>>
    /\ raw_df = [columns |-> <<>>, rows |-> <<>>]
    /\ feature_cols \in FeatureLists
    /\ X = [none |-> TRUE]
    /\ features_nan_rate = <<0, 1>>
    /\ steps = <<>>
    /\ out = [kind |-> "none"]
    /\ spc = "start"

\* raw_df = data_fetcher.fetch_latest_data()
RunFetch ==
    /\ spc = "start"
    /\ raw_df' \in RawFrames
    /\ steps' = Append(steps, [call |-> "fetch"])
    /\ spc' = "fetched"
    /\ UNCHANGED <<backtest, report, batch, alerting, ledgers, feature_cols, X,
                   features_nan_rate, out>>

\* X = build_latest_feature_row(raw_df, feature_cols); a FeatureBridgeError
\* is logged and raised again.
RunBuild ==
    /\ spc = "fetched"
    /\ \E r \in {build_latest_feature_row(raw_df, feature_cols)} :
         /\ features_nan_rate' = r.rate
         /\ raw_df' = r.input
         /\ steps' = Append(steps, [call |-> "build", frame |-> raw_df,
                                    cols |-> feature_cols])
         /\ IF r.raised
            THEN /\ out' = [kind |-> "raised", error |-> "FeatureBridgeError"]
                 /\ spc' = "done"
                 /\ X' = X
            ELSE /\ X' = [none |-> FALSE, arr |-> r.arr]
                 /\ spc' = "built"
                 /\ out' = out
    /\ UNCHANGED <<backtest, report, batch, alerting, ledgers, feature_cols>>

\* return model_service.predict_proba_one(X)
RunPredict ==
    /\ spc = "built"
    /\ steps' = Append(steps, [call |-> "predict", x |-> X.arr])
    /\ out' = [kind |-> "returned", value |-> predict_proba_one(X.arr)]
    /\ spc' = "done"
    /\ UNCHANGED <<backtest, report, batch, alerting, ledgers, raw_df, feature_cols, X,
                   features_nan_rate>>

NextStream ==
    \/ RunFetch
    \/ RunBuild
    \/ RunPredict

SpecStream == InitStream /\ [][NextStream]_vars

\* The DataFrame the bridge was called with, and the cell of its last row in
\* column c.
BuiltFrom == steps[2].frame
LastCell(c) == BuiltFrom.rows[Len(BuiltFrom.rows)][c]

\* A cell that holds a number: a finite float or a string of digits.
IsNumber(cell) ==
    IF cell.t = "float" THEN cell.v.kind \in {"num", "zero"}
    ELSE cell.s # <<>> /\ \A k \in 1 .. Len(cell.s) : cell.s[k] \in DOMAIN Digit

\* What the claim says of the output value o of feature column c: 0 for a
\* missing column and for a NaN, infinite or non-numeric value, the value
\* itself (as the float32 nearest to it) for a number.
ClaimedValue(c, o) ==
    IF c \notin Range(BuiltFrom.columns) THEN o = BZero
    ELSE IF ~IsNumber(LastCell(c)) THEN o = BZero
    ELSE o = ToFloat32(ToNumeric(LastCell(c)))

\* C24: for every raw DataFrame with at least one row and every list
\* feature_cols of length n, build_latest_feature_row returns a float32 array
\* of shape (1, n) from the last row, in feature_cols order, with 0 for every
\* missing column and every NaN, infinite or non-numeric value, numeric
\* values keeping their value; the input DataFrame is not modified.
C24_BridgeOutput ==
    (Len(steps) >= 2 /\ Len(BuiltFrom.rows) >= 1) =>
        /\ ~X.none
        /\ Len(X.arr) = 1 /\ Len(X.arr[1]) = Len(feature_cols)
        /\ \A k \in 1 .. Len(feature_cols) :
              ClaimedValue(feature_cols[k], X.arr[1][k])
        /\ raw_df = BuiltFrom

\* The values of the latest feature row that were NaN or infinite in the
\* input.
WasCleaned ==
    {k \in 1 .. Len(feature_cols) :
        /\ feature_cols[k] \in Range(BuiltFrom.columns)
        /\ LastCell(feature_cols[k]).t = "float"
        /\ LastCell(feature_cols[k]).v.kind \in {"nan", "inf"}}

\* C25: after build_latest_feature_row returns, the gauge features_nan_rate
\* equals the number of values of the latest feature row that were NaN or
\* infinite in the input and were replaced by 0, divided by the number of
\* feature columns; it is 0.0 when no value needed cleaning.
C25_GaugeCountsCleaned ==
    (~X.none /\ Len(feature_cols) >= 1) =>
        features_nan_rate = RDiv(R(Cardinality(WasCleaned)), R(Len(feature_cols)))

\* The calls run_once has made, by name.
Calls == [k \in 1 .. Len(steps) |-> steps[k].call]

\* C26: when the fetched DataFrame has zero rows the bridge raises
\* FeatureBridgeError, run_once propagates it and never calls
\* predict_proba_one; on success run_once returns exactly the model's output
\* for the built row; the steps occur in the order fetch, build, predict.
C26_BridgeFailureStops ==
    /\ Calls \in {<<>>, <<"fetch">>, <<"fetch", "build">>,
                  <<"fetch", "build", "predict">>}
    /\ (Len(steps) >= 2 /\ Len(BuiltFrom.rows) = 0) =>
          /\ spc = "done"
          /\ out = [kind |-> "raised", error |-> "FeatureBridgeError"]
    /\ out.kind = "raised" => Calls = <<"fetch", "build">>
    /\ out.kind = "returned" =>
          /\ Calls = <<"fetch", "build", "predict">>
          /\ ~X.none /\ Len(X.arr) = 1 /\ Len(X.arr[1]) = Len(feature_cols)
          /\ steps[3].x = X.arr
          /\ out.value = predict_proba_one(X.arr)
    /\ spc = "done" => out.kind \in {"raised", "returned"}

C26_Witness ==
    /\ spc = "done" /\ out.kind = "raised"
    /\ feature_cols = <<"price", "volume">>
    /\ BuiltFrom.columns = <<"price">> /\ BuiltFrom.rows = <<>>

\* ------------------------------------- the two simulators in binary64
\* backtest_symbol and then backtest on the same bars, rules and contexts,
\* their ledgers kept as float64 values bit by bit.
\* Largest number of simulated bars of such a run.
MaxAgree == 2

\* The simulated bars: the close alternates between 99 and 49.
AgreeBar(j) ==
    IF (j - Warmup) % 2 = 0 THEN [high |-> 99, low |-> 99, close |-> 99]
    ELSE [high |-> 99, low |-> 49, close |-> 49]

AgreeFrames ==
    {[j \in 0 .. n - 1 |->
         IF j < Warmup THEN Row(j, HistBar) ELSE Row(j, AgreeBar(j))] :
       n \in Warmup .. Warmup + MaxAgree}

\* The cost c in basis points: none, and the default 5.0 of backtest.
AgreeCosts == {0, 5}

AgreeRuleList ==
    <<[rule |-> "e1", weight |-> R(1)], [rule |-> "e2", weight |-> R(-1)]>>

\* The outcomes of safe_eval at one bar: e1 alone truthy (BUY), e2 alone
\* truthy (SELL), or neither (HOLD).
AgreeOutcomes ==
    {ev \in Evaluations(rules) :
        /\ \A e \in Exprs : ev[e] \in {"truthy", "falsy", "none"}
        /\ ~(ev["e1"] = "truthy" /\ ev["e2"] = "truthy")}

\* The float64 of a whole number.
F64(n) == Lit64(n, 1)

\* float(atr_pct.iloc[j]) in float64.
AtrPct64(frame, j) ==
    IF j < AtrWindow - 1 THEN BZero
    ELSE BinDivInt(BinDivInt(F64(SumTrueRange(frame, j - (AtrWindow - 1), j)),
                             AtrWindow, P64),
                   frame[j].close, P64)

\* cost_per_notional_bps in float64.
cost_per_notional_bps64(a, spread, slip, mult) ==
    BinAdd(BinAdd(BinDivInt(spread, 2, P64), slip, P64),
           BinMul(mult, BinMul(a, F64(BpsUnit), P64), P64), P64)

\* backtest_symbol: fee = cash * (bps/1e4); qty = (cash - fee) / px
BuyFee64(c, b) == BinMul(c, BinDivInt(b, BpsUnit, P64), P64)
BuyQty64(c, fee, close) == BinDivInt(BinSub(c, fee, P64), close, P64)
\* cash -= qty*px + fee
CashAfterBuy64(c, qty, close, fee) ==
    BinSub(c, BinAdd(BinMul(qty, F64(close), P64), fee, P64), P64)
\* backtest_symbol: fee = shares * px * (bps/1e4)
SellFee64(sh, close, b) ==
    BinMul(BinMul(sh, F64(close), P64), BinDivInt(b, BpsUnit, P64), P64)
\* cash += shares*px - fee
CashAfterSell64(c, sh, close, fee) ==
    BinAdd(c, BinSub(BinMul(sh, F64(close), P64), fee, P64), P64)
\* backtest: qty = cash / px; fee = qty * px * cost_bps / 10000.0
VoterBuyFee64(c, close, cb) ==
    BinDivInt(BinMul(BinMul(BinDivInt(c, close, P64), F64(close), P64), cb, P64),
              BpsUnit, P64)
\* backtest: fee = shares * px * cost_bps / 10000.0
VoterSellFee64(sh, close, cb) ==
    BinDivInt(BinMul(BinMul(sh, F64(close), P64), cb, P64), BpsUnit, P64)
\* backtest_symbol: equity.append(cash + shares*px)
MarkToMarket64(c, sh, close) == BinAdd(c, BinMul(sh, F64(close), P64), P64)

\* Mutant of VoterMarkToMarket64: the open position is left out.
VoterCashOnly64(c, sh, close) == c

\* backtest: eq = cash + shares * px
VoterMarkToMarket64(c, sh, close) == BinAdd(c, BinMul(sh, F64(close), P64), P64)

\* The ledger and the trade quantity after the bar: a BUY, a SELL, or no
\* trade.
Bought64(fee, close) ==
    LET qty == BuyQty64(cash, fee, close)
    IN  [cash |-> CashAfterBuy64(cash, qty, close, fee),
         shares |-> BinAdd(shares, qty, P64), pos |-> 1, qty |-> qty]
Sold64(fee, close) ==
    [cash |-> CashAfterSell64(cash, shares, close, fee),
     shares |-> BZero, pos |-> 0, qty |-> shares]
Held64 == [cash |-> cash, shares |-> shares, pos |-> pos, qty |-> BZero]

InitAgree ==
    /\ fn = "backtest_symbol"
    /\ df \in AgreeFrames
    /\ rule_list = AgreeRuleList
    /\ rules = load_rules(rule_list)
    /\ \E c \in AgreeCosts :
          /\ spread_bps = F64(0) /\ slip_bps = F64(c) /\ slip_atr_mult = F64(0)
          /\ cost_bps = F64(c)
    /\ cash = F64(1) /\ shares = F64(0) /\ pos = 0
    /\ trades = <<>> /\ equity = <<>> /\ times = <<>>
    /\ i = LoopStart
    /\ evals = [e \in Exprs |-> "none"]
    /\ score = NoValue /\ sig = "none" /\ px = NoValue /\ bps = NoValue
    /\ atr_pct = NoValue /\ scores = <<>>
    /\ pc = "loop"
    /\ ret = [trades |-> <<>>, eq |-> <<>>]
    /\ NoReport
    /\ NoOthers

\* One bar of backtest_symbol in float64; the outcomes of safe_eval on the
\* bar's context are recorded.
SymbolBar64 ==
    /\ fn = "backtest_symbol" /\ pc = "loop" /\ i < NRows
    /\ \E ev \in AgreeOutcomes :
       \E close \in {df[i].close} :
       \E a \in {AtrPct64(df, i)} :
       \E b \in {cost_per_notional_bps64(a, spread_bps, slip_bps, slip_atr_mult)} :
       \E s \in {Score(rules, ev)} :
       \E g \in {Signal(s)} :
       \E n \in {IF BuyGuard(g, pos) THEN Bought64(BuyFee64(cash, b), close)
                 ELSE IF SellGuard(g, pos)
                      THEN Sold64(SellFee64(shares, close, b), close)
                 ELSE Held64} :
         /\ evals' = ev /\ score' = s /\ sig' = g /\ px' = F64(close) /\ bps' = b
         /\ atr_pct' = a /\ scores' = Append(scores, s)
         /\ ctx_log' = [ctx_log EXCEPT !["A"] = Append(@, ev)]
         /\ cash' = n.cash /\ shares' = n.shares /\ pos' = n.pos
         /\ trades' =
              IF n.pos # pos
              THEN Append(trades, [time |-> df[i].time_key,
                                   side |-> IF n.pos = 1 THEN "BUY" ELSE "SELL",
                                   price |-> F64(close), qty |-> n.qty,
                                   bps |-> b, score |-> s])
              ELSE trades
         /\ equity' = Append(equity, MarkToMarket64(n.cash, n.shares, close))
         /\ times' = Append(times, df[i].time_key)
         /\ ledgers' = Append(ledgers, <<n.cash, n.shares, n.pos>>)
    /\ i' = i + 1
    /\ UNCHANGED <<inputs, pc, ret, report, market, results, stream, alerting>>

\* One bar of backtest in float64, on the context of the same bar: safe_eval
\* gives what it gave backtest_symbol.
VoterBar64 ==
    /\ fn = "backtest" /\ pc = "loop" /\ i < NRows
    /\ \E ev \in {ctx_log["A"][i - Warmup + 1]} :
       \E close \in {df[i].close} :
       \E s \in {Score(rules, ev)} :
       \E g \in {Signal(s)} :
       \E n \in {IF BuyGuard(g, pos)
                 THEN Bought64(VoterBuyFee64(cash, close, cost_bps), close)
                 ELSE IF SellGuard(g, pos)
                      THEN Sold64(VoterSellFee64(shares, close, cost_bps), close)
                 ELSE Held64} :
         /\ evals' = ev /\ score' = s /\ sig' = g /\ px' = F64(close)
         /\ scores' = Append(scores, s)
         /\ cash' = n.cash /\ shares' = n.shares /\ pos' = n.pos
         /\ trades' =
              IF n.pos # pos
              THEN Append(trades, [time |-> df[i].time_key,
                                   side |-> IF n.pos = 1 THEN "BUY" ELSE "SELL",
                                   price |-> F64(close), qty |-> n.qty,
                                   score |-> s])
              ELSE trades
         /\ equity' = Append(equity, VoterMarkToMarket64(n.cash, n.shares, close))
         /\ times' = Append(times, df[i].time_key)
         /\ ledgers' = Append(ledgers, <<n.cash, n.shares, n.pos>>)
    /\ i' = i + 1
    /\ UNCHANGED <<inputs, bps, atr_pct, pc, ret, report, batch, stream, alerting>>

\* The loop of the running simulator is exhausted: it returns the trades and
\* the equity Series.
Return64 ==
    /\ pc = "loop" /\ i >= NRows
    /\ ret' = [trades |-> trades, eq |-> Series(equity, times)]
    /\ results' = Append(results, [fn |-> fn, trades |-> trades,
                                   eq |-> Series(equity, times),
                                   ledgers |-> ledgers])
    /\ pc' = "done"
    /\ UNCHANGED <<inputs, cash, shares, pos, trades, equity, times, i, evals,
                   score, sig, px, bps, atr_pct, scores, report, market, ctx_log,
                   stream, alerting, ledgers>>

\* backtest is called on the same bars and rules: cash = 1.0, shares = 0.0,
\* pos = 0 and empty lists.
CallBacktest64 ==
    /\ fn = "backtest_symbol" /\ pc = "done"
    /\ fn' = "backtest"
    /\ cash' = F64(1) /\ shares' = F64(0) /\ pos' = 0
    /\ trades' = <<>> /\ equity' = <<>> /\ times' = <<>>
    /\ i' = LoopStart
    /\ ledgers' = <<>>
    /\ pc' = "loop"
    /\ UNCHANGED <<df, rule_list, rules, spread_bps, slip_bps, slip_atr_mult,
                   cost_bps, evals, score, sig, px, bps, atr_pct, scores, ret,
                   report, batch, stream, alerting>>

NextAgree ==
    \/ SymbolBar64
    \/ Return64
    \/ CallBacktest64
    \/ VoterBar64

SpecAgree == InitAgree /\ [][NextAgree]_vars

\* time, side, price, qty and score of every trade of a log.
TradeFields(log) ==
    [k \in 1 .. Len(log) |->
        [time |-> log[k].time, side |-> log[k].side, price |-> log[k].price,
         qty |-> log[k].qty, score |-> log[k].score]]

\* Both simulators have returned, with the same sequence of ledger states,
\* the same trades and the same equity series.
BothReturned == Len(results) = 2
SameRun ==
    /\ results[1].ledgers = results[2].ledgers
    /\ TradeFields(results[1].trades) = TradeFields(results[2].trades)
    /\ results[1].eq = results[2].eq

\* C27 as stated: backtest with cost_bps = c and backtest_symbol with
\* spread_bps = 0, slip_bps = c, slip_atr_mult = 0 go through the same ledger
\* states and produce the same trades and the same equity series.
C27_SimulatorsAgree == BothReturned => SameRun

\* C27 amended: with c = 0 the two simulators go through the same ledger
\* states and produce the same trades and the same equity series.
C27_AgreeAtZeroCost == (BothReturned /\ cost_bps = F64(0)) => SameRun

C27_Witness ==
    /\ BothReturned /\ cost_bps = F64(0)
    /\ Len(results[2].trades) = 2
    /\ results[2].trades[2].side = "SELL"
    /\ results[1].eq = results[2].eq

\* ------------------------------------------------------------- alerts
\* Largest number of seconds the clock runs.
MaxClock == 2

\* throttle = int(a.get('throttle_seconds', 60)): the default.
DefaultThrottle == 60

\* time.time() when the process starts, and the step of the clock (half a
\* second).
ClockStart == R(100)
ClockStep == <<1, 2>>

\* The calls of send_alert: the two events of voter_signal_runner for symbol
\* A, and an event whose payload has no symbol.
AlertCalls ==
    {[event |-> "PnLDrop", payload |-> [symbol |-> "A"]],
     [event |-> "ScoreTooLow", payload |-> [symbol |-> "A"]],
     [event |-> "PnLDrop", payload |-> [pnl |-> R(-1)]]}

\* cfg['alerts']: enabled or not, throttle_seconds absent, 1 or 1.5, and the
\* channels that are configured (none, or telegram and email).
AlertCfgs ==
    [enabled : BOOLEAN,
     throttle_seconds : {NoValue, R(1), <<3, 2>>},
     channels : {{}, {"telegram", "email"}}]

\* int(x): x without its fraction.
IntOf(x) == IF x[1] >= 0 THEN x[1] \div x[2] ELSE -((-x[1]) \div x[2])

\* f"{event}:{payload.get('symbol','*')}"
Key(event, payload) ==
    event \o ":" \o (IF "symbol" \in DOMAIN payload THEN payload.symbol ELSE "*")

\* Mutant of Throttle: the time of a throttled call is recorded too.
ThrottleRecordsAll(key, seconds) ==
    [throttled |-> RNegative(RSub(RSub(now, IF last_sent[key].sent
                                            THEN last_sent[key].at ELSE R(0)),
                                  R(seconds))),
     last_sent |-> [last_sent EXCEPT ![key] = [sent |-> TRUE, at |-> now]]]

\* _throttle(key, seconds): whether the call is throttled, and _last_sent
\* after it.
Throttle(key, seconds) ==
    IF RNegative(RSub(RSub(now, IF last_sent[key].sent THEN last_sent[key].at
                                ELSE R(0)),
                      R(seconds)))
    THEN [throttled |-> TRUE, last_sent |-> last_sent]
    ELSE [throttled |-> FALSE,
          last_sent |-> [last_sent EXCEPT ![key] = [sent |-> TRUE, at |-> now]]]

InitAlerts ==
    /\ NoBacktest
    /\ NoReport
    /\ NoBatch
    /\ NoStream
    /\ ledgers = <<>>
    /\ last_sent = [k \in AlertKeys |-> [sent |-> FALSE, at |-> 0]]
    /\ now = ClockStart
    /\ deliveries = {}
    /\ last_alert = [kind |-> "none"]

\* send_alert(event, payload, cfg)
SendAlert ==
    /\ \E call \in AlertCalls, a \in AlertCfgs :
       \E key \in {Key(call.event, call.payload)} :
         IF ~a.enabled
         THEN /\ last_alert' = [kind |-> "disabled", key |-> key,
                                previous |-> last_sent[key],
                                throttle_seconds |-> a.throttle_seconds]
              /\ deliveries' = {}
              /\ last_sent' = last_sent
         ELSE \E t \in {Throttle(key, IntOf(Bound(a.throttle_seconds,
                                                R(DefaultThrottle))))} :
                /\ last_alert' = [kind |-> IF t.throttled THEN "throttled"
                                           ELSE "passed",
                                  key |-> key, previous |-> last_sent[key],
                                  throttle_seconds |-> a.throttle_seconds]
                /\ deliveries' = IF t.throttled THEN {} ELSE a.channels
                /\ last_sent' = t.last_sent
    /\ UNCHANGED <<backtest, report, batch, stream, ledgers, now>>

\* Time passes.
Tick ==
    /\ RNegative(RSub(now, RAdd(ClockStart, R(MaxClock))))
    /\ now' = RAdd(now, ClockStep)
    /\ UNCHANGED <<backtest, report, batch, stream, ledgers, last_sent,
                   deliveries, last_alert>>

NextAlerts ==
    \/ SendAlert
    \/ Tick

SpecAlerts == InitAlerts /\ [][NextAlerts]_vars

\* The seconds between the call that last_alert describes and the last call
\* of its key that got past the throttle before it.
SinceLast(call) == RSub(now, call.previous.at)

\* What every call does, whatever the interval it keeps: a throttled call
\* tries no channel and leaves _last_sent alone, and it is throttled by an
\* earlier call of its own key only; no call changes the time of another key;
\* a call with alerts disabled tries no channel and leaves _last_sent alone;
\* a call that gets past the throttle records its time.
CallKeepsState(window) ==
    /\ last_alert'.kind = "throttled" =>
         /\ deliveries' = {}
         /\ last_sent' = last_sent
         /\ last_sent[last_alert'.key].sent
         /\ RNegative(RSub(RSub(now, last_sent[last_alert'.key].at), window))
    /\ \A k \in AlertKeys \ {last_alert'.key} : last_sent'[k] = last_sent[k]
    /\ last_alert'.kind = "disabled" =>
         /\ deliveries' = {}
         /\ last_sent' = last_sent
    /\ last_alert'.kind = "passed" =>
         last_sent'[last_alert'.key] = [sent |-> TRUE, at |-> now]

\* C28 as stated: with a clock that never goes back, a call of send_alert
\* that gets past the throttle comes at least throttle_seconds (60 when the
\* configuration has none) after the last call of its key that got past it;
\* a throttled call tries no delivery and leaves the last-sent times alone;
\* calls of other keys neither throttle a call nor have their times changed;
\* a call with alerts disabled tries no delivery and leaves the times alone.
C28_ThrottleSeconds ==
    [][now' = now =>
         /\ (last_alert'.kind = "passed" /\ last_sent[last_alert'.key].sent) =>
              RGe0(RSub(RSub(now, last_sent[last_alert'.key].at),
                        Bound(last_alert'.throttle_seconds,
                              R(DefaultThrottle))))
         /\ CallKeepsState(Bound(last_alert'.throttle_seconds,
                                 R(DefaultThrottle)))]_vars

\* C28 amended: the interval the throttle keeps is int(throttle_seconds), the
\* configured value without its fraction; the rest is as stated.
C28_ThrottleWholeSeconds ==
    [][now' = now =>
         /\ (last_alert'.kind = "passed" /\ last_sent[last_alert'.key].sent) =>
              RGe0(RSub(RSub(now, last_sent[last_alert'.key].at),
                        R(IntOf(Bound(last_alert'.throttle_seconds,
                                      R(DefaultThrottle))))))
         /\ CallKeepsState(R(IntOf(Bound(last_alert'.throttle_seconds,
                                         R(DefaultThrottle)))))]_vars

\* A call configured with throttle_seconds 1.5 got past the throttle one
\* second after the last call of its key that did, and tried a channel, while
\* another key had been sent in between.
C28_Witness ==
    /\ last_alert.kind = "passed"
    /\ last_alert.throttle_seconds = <<3, 2>>
    /\ last_alert.previous.sent
    /\ SinceLast(last_alert) = R(1)
    /\ deliveries # {}
    /\ \E k \in AlertKeys \ {last_alert.key} :
         /\ last_sent[k].sent
         /\ RPos(RSub(last_sent[k].at, last_alert.previous.at))

====
